---- MODULE Spec2Model ----
(***************************************************************************)
(* A model of flatfile_mapping: the FFQL filter language (filter.py) and   *)
(* the mapping-rule interpreter (mapping_program.py).                      *)
(*                                                                         *)
(* Python str is modelled as a sequence of atoms.  An atom is one          *)
(* character ("1", "a", "%", ...) or one of the two reserved prefixes      *)
(* "destination!" and "source!", which the code only ever tests with       *)
(* startswith and removes with replace.                                    *)
(***************************************************************************)
EXTENDS Integers, Sequences, FiniteSets, TLC

(* ------------------------------ bounds --------------------------------- *)

\* longest literal / text value drawn for a comparison
MaxLen == 2
\* rows in a batch
NRows == 2
\* comparisons in a chain
MaxChain == 3
\* rules at the top level of a program
MaxRules == 2
\* records handed to one run()
NRecords == 2
\* find/replace pairs of a find-replace rule
MaxPairs == 2
\* source fields of a rule that takes a list of them
MaxFields == 3

(* ------------------------------- text ---------------------------------- *)

DEST == "destination!"
SRC == "source!"

Digits == {"0", "1", "2", "3", "4", "5", "6", "7", "8", "9"}

DigitVal(c) ==
  CASE c = "0" -> 0 [] c = "1" -> 1 [] c = "2" -> 2 [] c = "3" -> 3
    [] c = "4" -> 4 [] c = "5" -> 5 [] c = "6" -> 6 [] c = "7" -> 7
    [] c = "8" -> 8 [] c = "9" -> 9

\* code point of a one-character atom (Python compares str by code point);
\* the reserved prefixes never occur in compared text and get the code of
\* their first character
Ord(c) ==
  CASE c = "%" -> 37 [] c = "." -> 46
    [] c \in Digits -> 48 + DigitVal(c)
    [] c = "A" -> 65 [] c = "J" -> 74
    [] c = "a" -> 97 [] c = "j" -> 106
    [] c = "x" -> 120 [] c = "y" -> 121 [] c = "z" -> 122
    [] c = " " -> 32 [] c = "'" -> 39 [] c = "," -> 44 [] c = ":" -> 58
    [] c = "F" -> 70 [] c = "N" -> 78 [] c = "T" -> 84
    [] c = "[" -> 91 [] c = "]" -> 93 [] c = "_" -> 95
    [] c = "b" -> 98 [] c = "c" -> 99 [] c = "e" -> 101 [] c = "l" -> 108
    [] c = "n" -> 110 [] c = "o" -> 111 [] c = "p" -> 112 [] c = "q" -> 113
    [] c = "r" -> 114
    [] c = "s" -> 115 [] c = "t" -> 116 [] c = "u" -> 117 [] c = "v" -> 118
    [] c = "w" -> 119 [] c = "{" -> 123 [] c = "}" -> 125
    [] c = DEST -> 100 [] c = SRC -> 115
    [] OTHER -> 0

\* str.lower() on one atom
Lower(c) == CASE c = "A" -> "a" [] c = "J" -> "j" [] OTHER -> c

\* str.upper() on one atom
Upper(c) == CASE c = "a" -> "A" [] c = "j" -> "J" [] OTHER -> c

RECURSIVE TextLess(_, _)
\* Python  a < b  on str: lexicographic by code point
TextLess(a, b) ==
  IF b = <<>> THEN FALSE
  ELSE IF a = <<>> THEN TRUE
  ELSE IF Ord(Head(a)) # Ord(Head(b)) THEN Ord(Head(a)) < Ord(Head(b))
  ELSE TextLess(Tail(a), Tail(b))

\* str.startswith(prefix) for a reserved prefix
StartsWith(name, prefix) == Len(name) > 0 /\ name[1] = prefix

\* str.replace(prefix, ""): removes every occurrence
Replace(name, prefix) == SelectSeq(name, LAMBDA c : c # prefix)

RECURSIVE StrReplace(_, _, _)
\* str.replace(find, repl) for a non-empty find: every occurrence, from the left
StrReplace(text, find, repl) ==
  IF Len(text) < Len(find) \/ find = <<>> THEN text
  ELSE IF SubSeq(text, 1, Len(find)) = find
  THEN repl \o StrReplace(SubSeq(text, Len(find) + 1, Len(text)), find, repl)
  ELSE <<Head(text)>> \o StrReplace(Tail(text), find, repl)

RECURSIVE Pow10(_)
Pow10(k) == IF k = 0 THEN 1 ELSE 10 * Pow10(k - 1)

\* all sequences over S of length 0..n
RECURSIVE SeqsUpTo(_, _)
SeqsUpTo(S, n) ==
  IF n = 0 THEN {<<>>}
  ELSE LET shorter == SeqsUpTo(S, n - 1)
       IN  shorter \cup {Append(s, c) : s \in {t \in shorter : Len(t) = n - 1}, c \in S}

(* ------------------------------ values --------------------------------- *)

\* Value = Union[str, int, float, bool, None, list]   (mapping_rule.py:6)
IntV(n) == [t |-> "int", n |-> n, s |-> <<>>]
StrV(s) == [t |-> "str", n |-> 0, s |-> s]
BoolV(b) == [t |-> "bool", n |-> IF b THEN 1 ELSE 0, s |-> <<>>]
Null == [t |-> "null", n |-> 0, s |-> <<>>]
\* a list of values
ListV(items) == [t |-> "list", n |-> 0, s |-> <<>>, items |-> items]
\* a dict as a value: its [key, value] pairs in insertion order
DictV(pairs) == [t |-> "dict", n |-> 0, s |-> <<>>, pairs |-> pairs]

\* dict.get(key): None for a missing key
Get(row, key) == IF key \in DOMAIN row THEN row[key] ELSE Null

\* d[key] = value on a dict
Put(row, key, value) ==
  [k \in (DOMAIN row) \cup {key} |-> IF k = key THEN value ELSE row[k]]

\* del d[key] as it would be if the key stayed, holding None
DelToNone(row, key) == [k \in DOMAIN row |-> IF k = key THEN Null ELSE row[k]]

\* del d[key]
Del(row, key) == [k \in (DOMAIN row) \ {key} |-> row[k]]

EmptyRow == [k \in {} |-> Null]

\* bool(v) is False: None, 0, False, "" and []
Falsy(v) ==
  \/ v = Null
  \/ v.t \in {"int", "bool"} /\ v.n = 0
  \/ v.t = "str" /\ v.s = <<>>
  \/ v.t = "list" /\ v.items = <<>>
  \/ v.t = "dict" /\ v.pairs = <<>>

RECURSIVE IntText(_)
\* str(n) for n >= 0
IntText(n) ==
  IF n < 10 THEN <<CHOOSE c \in Digits : DigitVal(c) = n>>
  ELSE IntText(n \div 10) \o <<CHOOSE c \in Digits : DigitVal(c) = n % 10>>

RECURSIVE Join(_, _)
\* sep.join(texts)
Join(texts, sep) ==
  IF texts = <<>> THEN <<>>
  ELSE IF Len(texts) = 1 THEN texts[1]
  ELSE texts[1] \o sep \o Join(Tail(texts), sep)

RECURSIVE PyStr(_, _)
\* str(v), and repr(v) when quoted: text is quoted inside a list and in a repr
PyStr(v, quoted) ==
  CASE v.t = "str" -> IF quoted THEN <<"'">> \o v.s \o <<"'">> ELSE v.s
    [] v.t = "int" -> IntText(v.n)
    [] v.t = "bool" -> IF v.n = 1 THEN <<"T", "r", "u", "e">>
                       ELSE <<"F", "a", "l", "s", "e">>
    [] v.t = "null" -> <<"N", "o", "n", "e">>
    [] v.t = "list" ->
         <<"[">> \o Join([i \in 1..Len(v.items) |-> PyStr(v.items[i], TRUE)],
                         <<",", " ">>) \o <<"]">>
    [] v.t = "dict" ->
         <<"{">> \o Join([i \in 1..Len(v.pairs) |->
                            <<"'">> \o v.pairs[i].key \o <<"'", ":", " ">>
                              \o PyStr(v.pairs[i].value, TRUE)],
                         <<",", " ">>) \o <<"}">>

(* --------------------- numbers (filter.as_number) ---------------------- *)

\* numbers are kept exactly, scaled by Scale, so that every decimal text of
\* at most MaxLen + 1 atoms has an integer image
Scale == Pow10(MaxLen + 1)

NoNumber == [ok |-> FALSE, num |-> 0]
Number(n) == [ok |-> TRUE, num |-> n]

RECURSIVE DigitsValue(_)
\* the integer a digit string denotes
DigitsValue(s) ==
  IF s = <<>> THEN 0
  ELSE 10 * DigitsValue(SubSeq(s, 1, Len(s) - 1)) + DigitVal(s[Len(s)])

AllDigits(s) == \A i \in 1..Len(s) : s[i] \in Digits

\* int(s) for a str: succeeds on a non-empty digit string
IntOfText(s) ==
  IF Len(s) > 0 /\ AllDigits(s) THEN Number(DigitsValue(s) * Scale) ELSE NoNumber

\* float(s) for a str: digits with one ".", at least one digit
FloatOfText(s) ==
  IF \E i \in 1..Len(s) :
       /\ s[i] = "."
       /\ AllDigits(SubSeq(s, 1, i - 1))
       /\ AllDigits(SubSeq(s, i + 1, Len(s)))
       /\ Len(s) > 1
  THEN LET i == CHOOSE j \in 1..Len(s) : s[j] = "."
           whole == SubSeq(s, 1, i - 1)
           frac == SubSeq(s, i + 1, Len(s))
       IN  Number(DigitsValue(whole) * Scale
                  + DigitsValue(frac) * (Scale \div Pow10(Len(frac))))
  ELSE IntOfText(s)

\* as_number as it would be without the float() fallback
as_number_int_only(v) ==
  CASE v.t = "int" -> Number(v.n * Scale)
    [] v.t = "bool" -> Number(v.n * Scale)
    [] v.t = "str" -> IntOfText(v.s)
    [] OTHER -> NoNumber

\* as_number(s): ints, floats and bools are returned as they are, text is
\* tried with int() and then float(), anything else gives None
as_number(v) ==
  CASE v.t = "int" -> Number(v.n * Scale)
    [] v.t = "bool" -> Number(v.n * Scale)
    [] v.t = "str" -> IF IntOfText(v.s).ok THEN IntOfText(v.s) ELSE FloatOfText(v.s)
    [] OTHER -> NoNumber

(* ----------------------- FFQL grammar and parser ------------------------ *)

\* A query text is modelled after lexing: a sequence of tokens [k, s], where
\* k is "characters", "quoted", "squoted" or a keyword of the grammar and s
\* is the text of a term (empty for keywords).
Tok(k, s) == [k |-> k, s |-> s]
Kw(k) == [k |-> k, s |-> <<>>]

DataOps == {"eq", "ne", "gte", "gt", "lte", "lt", "like", "ilike"}
LogicalOps == {"and", "or"}
Statuses == {"error", "valid"}

\* characters: /[A-Za-z0-9!#-&*]+/   ("." is not a bare-term character)
BareChar(c) == c # "."

\* lark Token and Tree
Token(type, value) == [token |-> type, value |-> value]
Tree(data, children) == [data |-> data, children |-> children]
IsToken(x) == "token" \in DOMAIN x

NoParse == [ok |-> FALSE, tree |-> Tree("", <<>>), pos |-> 0]
Parsed(tree, pos) == [ok |-> TRUE, tree |-> tree, pos |-> pos]

Peek(toks, i) == IF i <= Len(toks) THEN toks[i].k ELSE "$END"

\* term: quoted_term | quoted_single_term | characters
ParseTerm(toks, i) ==
  CASE Peek(toks, i) = "characters" ->
         IF Len(toks[i].s) > 0 /\ \A j \in 1..Len(toks[i].s) : BareChar(toks[i].s[j])
         THEN Parsed(Tree("term", <<Tree("characters",
                        <<Token("ANONYMOUS", toks[i].s)>>)>>), i + 1)
         ELSE NoParse
    [] Peek(toks, i) = "quoted" ->
         Parsed(Tree("term", <<Tree("quoted_term",
            IF toks[i].s = <<>>
            THEN <<Token("QUOTE", <<"\"">>), Token("QUOTE", <<"\"">>)>>
            ELSE <<Token("QUOTE", <<"\"">>),
                   Tree("string_content", <<Token("ANONYMOUS", toks[i].s)>>),
                   Token("QUOTE", <<"\"">>)>>)>>), i + 1)
    [] Peek(toks, i) = "squoted" ->
         Parsed(Tree("term", <<Tree("quoted_single_term",
            IF toks[i].s = <<>>
            THEN <<Token("QUOTE_SINGLE", <<"'">>), Token("QUOTE_SINGLE", <<"'">>)>>
            ELSE <<Token("QUOTE_SINGLE", <<"'">>),
                   Tree("string_content", <<Token("ANONYMOUS", toks[i].s)>>),
                   Token("QUOTE_SINGLE", <<"'">>)>>)>>), i + 1)
    [] OTHER -> NoParse

\* operator_data: operator_eq | ... ; the keyword itself is an anonymous
\* token, which lark filters out of the tree
OperatorData(k) == Tree("operator_data", <<Tree("operator_" \o k, <<>>)>>)
OperatorLogical(k) == Tree("operator_logical", <<Tree("operator_" \o k, <<>>)>>)
OperatorMessage == Tree("operator_message", <<Tree("operator_is", <<>>)>>)
Status(k) ==
  Tree("status", <<Tree("simple_status", <<Tree("simple_status_" \o k, <<>>)>>)>>)

RECURSIVE ParseExpression(_, _)
RECURSIVE ParseNonChained(_, _)
RECURSIVE ParseChainRest(_, _, _)

\* non_chained_expression: logical_expression | wrapped | sequence
ParseNonChained(toks, i) ==
  LET k == Peek(toks, i)
      wrap(t) == Tree("non_chained_expression", <<t>>)
      seq(name, children) == wrap(Tree("sequence", <<Tree(name, children)>>))
  IN
  CASE k = "(" ->
         LET inner(e) ==
               IF e.ok /\ Peek(toks, e.pos) = ")"
               THEN Parsed(wrap(Tree("wrapped", <<e.tree>>)), e.pos + 1)
               ELSE NoParse
         IN  inner(ParseExpression(toks, i + 1))
    [] k \in DataOps ->
         LET operand(t) ==
               IF t.ok
               THEN Parsed(seq("sequence_operator_term", <<OperatorData(k), t.tree>>),
                           t.pos)
               ELSE NoParse
         IN  operand(ParseTerm(toks, i + 1))
    [] k = "is" ->
         IF Peek(toks, i + 1) \in Statuses
         THEN Parsed(seq("sequence_operator_status",
                         <<OperatorMessage, Status(Peek(toks, i + 1))>>), i + 2)
         ELSE NoParse
    [] OTHER ->
         LET after(l, o, r) ==
               IF ~l.ok THEN NoParse
               ELSE IF o \in DataOps /\ r.ok
               THEN Parsed(seq("sequence_term_operator_term",
                               <<l.tree, OperatorData(o), r.tree>>), r.pos)
               ELSE IF o \in LogicalOps /\ r.ok
               THEN Parsed(wrap(Tree("logical_expression",
                               <<l.tree, OperatorLogical(o), r.tree>>)), r.pos)
               ELSE IF o = "is" /\ Peek(toks, l.pos + 1) \in Statuses
               THEN Parsed(seq("sequence_term_operator_status",
                               <<l.tree, OperatorMessage,
                                 Status(Peek(toks, l.pos + 1))>>),
                           l.pos + 2)
               ELSE NoParse
             left(l) == after(l, Peek(toks, l.pos), ParseTerm(toks, l.pos + 1))
         IN  left(ParseTerm(toks, i))

\* (operator_logical non_chained_expression)+ : the children collected so far
\* are acc; the repetition is flat, it never nests
ParseChainRest(toks, i, acc) ==
  IF Peek(toks, i) \in LogicalOps
  THEN LET next(n) ==
             IF n.ok
             THEN ParseChainRest(toks, n.pos,
                                 acc \o <<OperatorLogical(Peek(toks, i)), n.tree>>)
             ELSE NoParse
       IN  next(ParseNonChained(toks, i + 1))
  ELSE Parsed(Tree("chained_expression", acc), i)

\* expression: chained_expression | non_chained_expression
ParseExpression(toks, i) ==
  LET chain(c) ==
        IF c.ok THEN Parsed(Tree("expression", <<c.tree>>), c.pos) ELSE NoParse
      start(first) ==
        IF ~first.ok THEN NoParse
        ELSE IF Peek(toks, first.pos) \in LogicalOps
        THEN chain(ParseChainRest(toks, first.pos, <<first.tree>>))
        ELSE Parsed(Tree("expression", <<first.tree>>), first.pos)
  IN  start(ParseNonChained(toks, i))

\* parser.parse(query): start: expression, up to the end of the text
Parse(toks) ==
  LET whole(e) ==
        IF e.ok /\ e.pos = Len(toks) + 1
        THEN Parsed(Tree("start", <<e.tree>>), e.pos)
        ELSE NoParse
  IN  whole(ParseExpression(toks, 1))

(* ------------------------------- Node ---------------------------------- *)

\* Node.value is the name of a grammar rule or the text of a token
Rule(r) == [rule |-> r]
Text(s) == [text |-> s]
Node(value, children) == [value |-> value, children |-> children]

RECURSIVE from_parse_tree(_)
\* from_parse_tree as it would be if a tree with one child kept its own node
from_parse_tree_uncollapsed(parse_tree) ==
  IF IsToken(parse_tree) THEN Node(Text(parse_tree.value), <<>>)
  ELSE Node(Rule(parse_tree.data),
            [i \in 1..Len(parse_tree.children) |->
               IF IsToken(parse_tree.children[i])
               THEN Node(Text(parse_tree.children[i].value), <<>>)
               ELSE from_parse_tree(parse_tree.children[i])])
\* Node.from_parse_tree   (filter.py:138-178)
from_parse_tree(parse_tree) ==
  IF IsToken(parse_tree) THEN Node(Text(parse_tree.value), <<>>)
  ELSE IF Len(parse_tree.children) = 1
  THEN LET first_child == parse_tree.children[1]
       IN  IF IsToken(first_child) THEN Node(Text(first_child.value), <<>>)
           ELSE from_parse_tree(first_child)
  ELSE IF Len(parse_tree.children) = 0
  THEN Node(Rule(parse_tree.data), <<>>)
  ELSE Node(Rule(parse_tree.data),
            [i \in 1..Len(parse_tree.children) |->
               IF IsToken(parse_tree.children[i])
               THEN Node(Text(parse_tree.children[i].value), <<>>)
               ELSE from_parse_tree(parse_tree.children[i])])

\* Node.term
Term(node) ==
  IF node.value \in {Rule("quoted_term"), Rule("quoted_single_term")}
  THEN IF Len(node.children) = 3 THEN node.children[2].value.text ELSE <<>>
  ELSE IF "text" \in DOMAIN node.value THEN node.value.text
  ELSE <<node.value.rule>>

\* Filter.from_query(query): the root node, or a parse error
NoFilter == [ok |-> FALSE, root |-> Node(Rule(""), <<>>)]
from_query(query) ==
  LET node(parsed) ==
        IF parsed.ok THEN [ok |-> TRUE, root |-> from_parse_tree(parsed.tree)]
        ELSE NoFilter
  IN  node(Parse(query))

(* ------------------- single-record evaluator (_filter) ------------------ *)

\* the outcome of a call: a value, or the exception it raised
Ok(b) == [exc |-> "", val |-> b]
Raise(e) == [exc |-> e, val |-> FALSE]

\* rf"^{field_value.replace('%', '.*')}$" as a list of pattern elements:
\* "%" becomes ".*" (any sequence), an unescaped "." stays the regex "any
\* character", every other atom of the alphabet matches itself
LikeRegex(field_value) ==
  [i \in 1..Len(field_value) |->
     CASE field_value[i] = "%" -> [kind |-> "star", c |-> ""]
       [] field_value[i] = "." -> [kind |-> "any", c |-> ""]
       [] OTHER -> [kind |-> "lit", c |-> field_value[i]]]

RECURSIVE ReMatch(_, _, _)
\* re.match of an anchored pattern against the whole text
ReMatch(rgx, text, ignorecase) ==
  IF rgx = <<>> THEN text = <<>>
  ELSE LET e == Head(rgx)
       IN  CASE e.kind = "star" ->
                  \E k \in 0..Len(text) :
                     ReMatch(Tail(rgx), SubSeq(text, k + 1, Len(text)), ignorecase)
             [] e.kind = "any" ->
                  text # <<>> /\ ReMatch(Tail(rgx), Tail(text), ignorecase)
             [] OTHER ->
                  /\ text # <<>>
                  /\ IF ignorecase THEN Lower(Head(text)) = Lower(e.c)
                                   ELSE Head(text) = e.c
                  /\ ReMatch(Tail(rgx), Tail(text), ignorecase)

\* the six ordering operators on numbers
NumCompare(operator, a, b) ==
  CASE operator = Rule("operator_eq") -> a = b
    [] operator = Rule("operator_ne") -> a # b
    [] operator = Rule("operator_gte") -> a >= b
    [] operator = Rule("operator_gt") -> a > b
    [] operator = Rule("operator_lte") -> a <= b
    [] operator = Rule("operator_lt") -> a < b

\* the six ordering operators on str
TextCompare(operator, a, b) ==
  CASE operator = Rule("operator_eq") -> a = b
    [] operator = Rule("operator_ne") -> a # b
    [] operator = Rule("operator_gte") -> ~TextLess(a, b)
    [] operator = Rule("operator_gt") -> TextLess(b, a)
    [] operator = Rule("operator_lte") -> ~TextLess(b, a)
    [] operator = Rule("operator_lt") -> TextLess(a, b)

OrderOps ==
  {Rule("operator_eq"), Rule("operator_ne"), Rule("operator_gte"),
   Rule("operator_gt"), Rule("operator_lte"), Rule("operator_lt")}

\* _filter, branch sequence_term_operator_term (filter.py:245-296)
FilterComparison(row, children) ==
  LET field_name == Term(children[1])
      operator == children[2].value
      field_value == Term(children[3])
      record_value == Get(row, field_name)
      field_value_as_number == as_number(StrV(field_value))
      record_value_as_number == as_number(record_value)
  IN  IF field_value_as_number.ok /\ record_value_as_number.ok
      THEN IF operator \in OrderOps
           THEN Ok(NumCompare(operator, record_value_as_number.num,
                              field_value_as_number.num))
           ELSE Raise("ValueError")
      ELSE IF record_value.t # "str" THEN Ok(FALSE)
      ELSE IF operator \in OrderOps
      THEN Ok(TextCompare(operator, record_value.s, field_value))
      ELSE IF operator = Rule("operator_like")
      THEN Ok(ReMatch(LikeRegex(field_value), record_value.s, FALSE))
      ELSE IF operator = Rule("operator_ilike")
      THEN Ok(ReMatch(LikeRegex(field_value), record_value.s, TRUE))
      ELSE Raise("ValueError")

RECURSIVE _filter(_, _)
RECURSIVE FilterChain(_, _, _, _)

\* FilterChain as it would be if `and` bound tighter than `or`
FilterChainPrecedence(row, children, satisfied, i) ==
  IF i > Len(children) THEN Ok(satisfied)
  ELSE LET operator == children[i].value
           next_satisfied == _filter(row, children[i + 1])
           rest == FilterChain(row, children, next_satisfied.val, i + 2)
       IN  IF next_satisfied.exc # "" THEN next_satisfied
           ELSE IF operator = Rule("operator_and")
           THEN FilterChain(row, children, satisfied /\ next_satisfied.val, i + 2)
           ELSE IF rest.exc # "" THEN rest
           ELSE Ok(satisfied \/ rest.val)

\* the loop of the chained_expression branch: satisfied is the fold so far,
\* i the position of the next operator
FilterChain(row, children, satisfied, i) ==
  IF i > Len(children) THEN Ok(satisfied)
  ELSE LET operator == children[i].value
           next_satisfied == _filter(row, children[i + 1])
       IN  IF next_satisfied.exc # "" THEN next_satisfied
           ELSE IF operator = Rule("operator_and")
           THEN FilterChain(row, children, satisfied /\ next_satisfied.val, i + 2)
           ELSE IF operator = Rule("operator_or")
           THEN FilterChain(row, children, satisfied \/ next_satisfied.val, i + 2)
           ELSE Raise("ValueError")

\* _filter(row, node)   (filter.py:211-305)
_filter(row, node) ==
  LET value == node.value
      children == node.children
  IN  IF value = Rule("chained_expression")
      THEN LET satisfied == _filter(row, children[1])
           IN  IF satisfied.exc # "" THEN satisfied
               ELSE FilterChain(row, children, satisfied.val, 2)
      ELSE IF value = Rule("sequence_term_operator_term")
      THEN FilterComparison(row, children)
      ELSE IF value \in {Rule("sequence_operator_term"),
                         Rule("sequence_term_operator_status"),
                         Rule("sequence_operator_status")}
      THEN Raise("NotImplementedError")
      ELSE Raise("ValueError")

\* the record Filter.satisfies builds: the source row, with every destination
\* key added under "destination!" + key
Merged(source, destination) ==
  LET dkeys == {<<DEST>> \o k : k \in DOMAIN destination}
  IN  [k \in (DOMAIN source) \cup dkeys |->
         IF k \in dkeys THEN destination[Tail(k)] ELSE source[k]]

\* Filter.satisfies(source, destination)   (filter.py:194-196)
satisfies(root, source, destination) == _filter(Merged(source, destination), root)

(* --------------------- batch evaluator (_filter_df) --------------------- *)

\* A DataFrame is modelled by the list of its rows; it has the column c when
\* some row has the key c, and a row without the key holds NaN there.  A cell
\* holding None or NaN is Null.
Columns(df) == UNION {DOMAIN df[i] : i \in 1..Len(df)}
Column(df, c) == [i \in 1..Len(df) |-> Get(df[i], c)]

\* destination.add_prefix("destination!")
AddPrefix(df) ==
  [i \in 1..Len(df) |->
     [k \in {<<DEST>> \o c : c \in DOMAIN df[i]} |-> df[i][Tail(k)]]]

\* pd.concat([source, destination], axis=1) of two frames on the same index
Concat(source, destination) ==
  [i \in 1..Len(source) |->
     [k \in (DOMAIN source[i]) \cup (DOMAIN destination[i]) |->
        IF k \in DOMAIN destination[i] THEN destination[i][k] ELSE source[i][k]]]

\* pd.api.types.is_numeric_dtype(series.dtype): a column of integers, with or
\* without missing cells, is int64 or float64; text, or nothing but missing
\* cells, gives the object dtype
IsNumericDtype(series) ==
  /\ \A i \in 1..Len(series) : series[i].t \in {"int", "null"}
  /\ \E i \in 1..Len(series) : series[i].t = "int"

SeriesOk(vals) == [exc |-> "", vals |-> vals]
SeriesRaise(e) == [exc |-> e, vals |-> <<>>]

\* numeric series <op> number: NaN compares unequal to everything
NumericSeriesCompare(operator, series, num) ==
  [i \in 1..Len(series) |->
     IF series[i].t = "null" THEN BoolV(operator = Rule("operator_ne"))
     ELSE BoolV(NumCompare(operator, series[i].n * Scale, num))]

\* series <op> str.  A numeric series against a str is an invalid comparison:
\* all False for ==, all True for !=, TypeError for the orderings.  An object
\* series is compared cell by cell: a missing cell gives False (True for !=),
\* a cell of another type than str gives False for ==, True for != and makes
\* an ordering raise TypeError.
TextSeriesCompare(operator, series, field_value) ==
  LET eqne == operator \in {Rule("operator_eq"), Rule("operator_ne")}
      cell(v) ==
        IF v.t = "str" THEN BoolV(TextCompare(operator, v.s, field_value))
        ELSE BoolV(operator = Rule("operator_ne"))
  IN  IF IsNumericDtype(series)
      THEN IF eqne
           THEN SeriesOk([i \in 1..Len(series) |-> BoolV(operator = Rule("operator_ne"))])
           ELSE SeriesRaise("TypeError")
      ELSE IF ~eqne /\ \E i \in 1..Len(series) : series[i].t \notin {"str", "null"}
      THEN SeriesRaise("TypeError")
      ELSE SeriesOk([i \in 1..Len(series) |-> cell(series[i])])

\* series.str.match(rgx, case): the .str accessor exists only on object
\* columns; cells that are not str give NaN
StrMatch(series, field_value, ignorecase) ==
  IF IsNumericDtype(series) THEN SeriesRaise("AttributeError")
  ELSE SeriesOk([i \in 1..Len(series) |->
         IF series[i].t = "str"
         THEN BoolV(ReMatch(LikeRegex(field_value), series[i].s, ignorecase))
         ELSE Null])

\* _filter_df, branch sequence_term_operator_term (filter.py:343-387)
FilterDfComparison(df, children) ==
  LET field_name == Term(children[1])
      operator == children[2].value
      field_value == Term(children[3])
      record_value == Column(df, field_name)
      field_value_as_number == as_number(StrV(field_value))
  IN  IF field_name \notin Columns(df) THEN SeriesRaise("KeyError")
      ELSE IF field_value_as_number.ok /\ IsNumericDtype(record_value)
      THEN IF operator \in OrderOps
           THEN SeriesOk(NumericSeriesCompare(operator, record_value,
                                              field_value_as_number.num))
           ELSE SeriesRaise("ValueError")
      ELSE IF operator \in OrderOps
      THEN TextSeriesCompare(operator, record_value, field_value)
      ELSE IF operator = Rule("operator_like")
      THEN StrMatch(record_value, field_value, FALSE)
      ELSE IF operator = Rule("operator_ilike")
      THEN StrMatch(record_value, field_value, TRUE)
      ELSE SeriesRaise("ValueError")

\* satisfied & next_satisfied, satisfied | next_satisfied on two series: a
\* missing cell on the right counts as False, one on the left gives False
SeriesAnd(a, b) ==
  [i \in 1..Len(a) |->
     IF a[i].t = "null" THEN BoolV(FALSE) ELSE BoolV(a[i].n = 1 /\ b[i] = BoolV(TRUE))]
SeriesOr(a, b) ==
  [i \in 1..Len(a) |->
     IF a[i].t = "null" THEN BoolV(FALSE) ELSE BoolV(a[i].n = 1 \/ b[i] = BoolV(TRUE))]

RECURSIVE _filter_df(_, _)
RECURSIVE FilterDfChain(_, _, _, _)

FilterDfChain(df, children, satisfied, i) ==
  IF i > Len(children) THEN SeriesOk(satisfied)
  ELSE LET operator == children[i].value
           next_satisfied == _filter_df(df, children[i + 1])
       IN  IF next_satisfied.exc # "" THEN next_satisfied
           ELSE IF operator = Rule("operator_and")
           THEN FilterDfChain(df, children, SeriesAnd(satisfied, next_satisfied.vals), i + 2)
           ELSE IF operator = Rule("operator_or")
           THEN FilterDfChain(df, children, SeriesOr(satisfied, next_satisfied.vals), i + 2)
           ELSE SeriesRaise("ValueError")

\* _filter_df(df, node)   (filter.py:308-396)
_filter_df(df, node) ==
  LET value == node.value
      children == node.children
  IN  IF value = Rule("chained_expression")
      THEN LET satisfied == _filter_df(df, children[1])
           IN  IF satisfied.exc # "" THEN satisfied
               ELSE FilterDfChain(df, children, satisfied.vals, 2)
      ELSE IF value = Rule("wrapped")
      THEN _filter_df(df, children[2])
      ELSE IF value = Rule("sequence_term_operator_term")
      THEN FilterDfComparison(df, children)
      ELSE IF value \in {Rule("sequence_operator_term"),
                         Rule("sequence_term_operator_status"),
                         Rule("sequence_operator_status")}
      THEN SeriesRaise("NotImplementedError")
      ELSE SeriesRaise("ValueError")

\* Filter.satisfies_df(source, destination)   (filter.py:198-202)
satisfies_df(root, source, destination) ==
  _filter_df(Concat(source, AddPrefix(destination)), root)

(* ======================================================================= *)
(* Filter harness: a caller builds a Filter from a query and evaluates it   *)
(* on records (Filter.satisfies) and on batches (Filter.satisfies_df).      *)
(* ======================================================================= *)

VARIABLES
  query,        \* the query text handed to Filter.from_query (tokens)
  given,        \* how the inputs were drawn (never read by the operations)
  source,       \* the source rows, one per record of the batch
  destination,  \* the destination rows, aligned with source
  flt,          \* the Filter built by from_query
  fpc,          \* "query": not parsed yet, "filter": built, "error": parse error
  sat,          \* results of Filter.satisfies, record by record
  sat_df        \* result of Filter.satisfies_df on the whole batch

fvars == <<query, given, source, destination, flt, fpc, sat, sat_df>>

\* the state of a MappingProgram and of its callers (set out further down)
VARIABLES
  rules,        \* MappingProgram.rules
  filters,      \* MappingProgram.filters, the pre-parsed filter of each rule
  pc,           \* "new", "ready" (constructed), "run", "done" or "failed"
  records,      \* the records handed to run(); back-writes change them
  records0,     \* the records as they were handed over (never written)
  transformed,  \* the outputs of the run_one calls that have returned
  result,       \* what run() returned
  stack,        \* the run_one calls in progress, the innermost last
  fields,       \* what source_fields() returned
  err           \* the exception that ended the run, "" if none

ivars == <<rules, filters, pc, records, records0, transformed, result, stack,
           fields, err>>

\* the state of a caller of nesting.distill_groups (set out further down)
VARIABLES
  groups,            \* the groups handed over: a dict, its items in order
  keep_non_numeric,  \* the flag handed over
  distilled          \* whether distill_groups returned, and the items of its result

gvars == <<groups, keep_non_numeric, distilled>>

vars == <<fvars, ivars, gvars>>

NotDistilled == [returned |-> FALSE, items |-> <<>>]

\* distill_groups is not in use
NoGroups == groups = <<>> /\ keep_non_numeric = FALSE /\ distilled = NotDistilled

\* no MappingProgram is in use
NoProgram ==
  /\ rules = <<>> /\ filters = <<>> /\ pc = "idle"
  /\ records = <<>> /\ records0 = <<>> /\ transformed = <<>>
  /\ result = <<>> /\ stack = <<>> /\ fields = <<>> /\ err = ""

Pending == [exc |-> "pending", vals |-> <<>>]

DigitAtom(i) == CHOOSE c \in Digits : DigitVal(c) = i
FieldName(i) == <<"x", DigitAtom(i)>>

\* a literal is written bare when the grammar allows it, double-quoted otherwise
LitTok(L) ==
  IF L # <<>> /\ \A j \in 1..Len(L) : BareChar(L[j])
  THEN Tok("characters", L) ELSE Tok("quoted", L)

Comparison(field, op, L) == <<Tok("characters", field), Kw(op), LitTok(L)>>

\* atoms of the literals and of the text values of the record family
LitChars == {"%", ".", "1", "9", "a"}
ValChars == {"1", "9", "a", "A"}
Literals == SeqsUpTo(LitChars, MaxLen)
RecordValues ==
  {StrV(s) : s \in SeqsUpTo(ValChars, MaxLen)}
    \cup {IntV(1), IntV(9), IntV(11), BoolV(TRUE), Null}

\* literals and cells of the batch family
BatchLiterals == {<<"1", "1">>, <<"a">>, <<"9", "%">>}
BatchValues == {IntV(9), IntV(11), StrV(<<"9">>), StrV(<<"a">>), Null}

\* drawn in place of a value when the row is to lack the key
Missing == [t |-> "missing", n |-> 0, s |-> <<>>]

\* a row holding value v under key k; Missing leaves the key out
RowWith(k, v) == IF v = Missing THEN EmptyRow ELSE [c \in {k} |-> v]

RECURSIVE ChainTokens(_, _, _, _, _)
\* c1 op1 c2 ... cn with ci = `xi eq 1`, parentheses around ca..cb (a = 0: none)
ChainTokens(n, ops, a, b, i) ==
  IF i > n THEN <<>>
  ELSE (IF i > 1 THEN <<Kw(ops[i - 1])>> ELSE <<>>)
         \o (IF i = a THEN <<Kw("(")>> ELSE <<>>)
         \o Comparison(FieldName(i), "eq", <<"1">>)
         \o (IF i = b THEN <<Kw(")")>> ELSE <<>>)
         \o ChainTokens(n, ops, a, b, i + 1)

\* one comparison on one record, over every literal and every kind of value
InitRecord ==
  \E op \in DataOps, L \in Literals, v \in RecordValues \cup {Missing} :
    /\ query = Comparison(FieldName(1), op, L)
    /\ given = [family |-> "record", op |-> op, literal |-> L]
    /\ source = <<RowWith(FieldName(1), v)>>
    /\ destination = <<EmptyRow>>

\* one comparison on a batch, the field in the source or in the destination
InitBatch ==
  \E op \in DataOps, L \in BatchLiterals, dest \in BOOLEAN,
     cells \in [1..NRows -> BatchValues \cup {Missing}] :
    /\ query = Comparison((IF dest THEN <<DEST>> ELSE <<>>) \o FieldName(1), op, L)
    /\ given = [family |-> "batch", op |-> op, literal |-> L]
    /\ source = [i \in 1..NRows |->
                   IF dest THEN EmptyRow ELSE RowWith(FieldName(1), cells[i])]
    /\ destination = [i \in 1..NRows |->
                   IF dest THEN RowWith(FieldName(1), cells[i]) ELSE EmptyRow]

RECURSIVE Pow2(_)
Pow2(k) == IF k = 0 THEN 1 ELSE 2 * Pow2(k - 1)

\* bit j of row i of the truth table on n fields
Bit(i, j) == ((i - 1) \div Pow2(j - 1)) % 2

\* a chain of comparisons `xi eq 1` on the batch of all rows of n 0/1 fields
InitChain ==
  \E n \in 1..MaxChain :
    \E ops \in [1..(n - 1) -> LogicalOps], a \in 0..n, b \in 0..n :
      /\ (a = 0) = (b = 0)
      /\ a <= b
      /\ query = ChainTokens(n, ops, a, b, 1)
      /\ given = [family |-> "chain", n |-> n, ops |-> ops, a |-> a, b |-> b]
      /\ source = [i \in 1..Pow2(n) |->
                     [k \in {FieldName(j) : j \in 1..n} |->
                        IntV(Bit(i, DigitVal(k[2])))]]
      /\ destination = [i \in 1..Pow2(n) |-> EmptyRow]

\* the other productions of the grammar: a logical_expression of two bare
\* terms, a comparison without its left term, the status tests, quoted and
\* empty terms, parentheses, alone and joined in a chain
ShapeQueries ==
  LET x1 == Tok("characters", FieldName(1))
      x2 == Tok("characters", FieldName(2))
      shapes == { <<x1, Kw("and"), x2>>,
                  <<Kw("eq"), Tok("characters", <<"1">>)>>,
                  <<x1, Kw("is"), Kw("error")>>,
                  <<Kw("is"), Kw("valid")>>,
                  <<x1, Kw("eq"), Tok("quoted", <<>>)>>,
                  <<x1, Kw("ne"), Tok("squoted", <<"a">>)>>,
                  <<Tok("quoted", FieldName(1)), Kw("like"), Tok("characters", <<"1">>)>>,
                  <<Kw("(")>> \o Comparison(FieldName(1), "eq", <<"1">>) \o <<Kw(")")>>,
                  <<Kw("("), Kw("(")>> \o Comparison(FieldName(1), "eq", <<"1">>)
                     \o <<Kw(")"), Kw(")")>> }
  IN  shapes \cup {s \o <<Kw(o)>> \o t : s \in shapes, t \in shapes, o \in LogicalOps}

InitShape ==
  \E q \in ShapeQueries, cells \in [1..NRows -> {IntV(1), StrV(<<"a">>)}] :
    /\ query = q
    /\ given = [family |-> "shape"]
    /\ source = [i \in 1..NRows |-> RowWith(FieldName(1), cells[i])]
    /\ destination = [i \in 1..NRows |-> EmptyRow]

InitFilter ==
  /\ InitRecord \/ InitBatch \/ InitChain \/ InitShape
  /\ flt = NoFilter
  /\ fpc = "query"
  /\ sat = <<>>
  /\ sat_df = Pending
  /\ NoProgram
  /\ NoGroups

\* Filter.from_query(query)   (filter.py:188-192)
FromQuery ==
  /\ fpc = "query"
  /\ flt' = from_query(query)
  /\ fpc' = IF flt'.ok THEN "filter" ELSE "error"
  /\ UNCHANGED <<query, given, source, destination, sat, sat_df, ivars, gvars>>

\* Filter.satisfies(source, destination) on the next record
Satisfies ==
  /\ fpc = "filter"
  /\ Len(sat) < Len(source)
  /\ sat' = Append(sat, satisfies(flt.root, source[Len(sat) + 1],
                                  destination[Len(sat) + 1]))
  /\ UNCHANGED <<query, given, source, destination, flt, fpc, sat_df, ivars, gvars>>

\* Filter.satisfies_df(source, destination) on the batch
SatisfiesDf ==
  /\ fpc = "filter"
  /\ given.family # "record"
  /\ sat_df = Pending
  /\ sat_df' = satisfies_df(flt.root, source, destination)
  /\ UNCHANGED <<query, given, source, destination, flt, fpc, sat, ivars, gvars>>

NextFilter == FromQuery \/ Satisfies \/ SatisfiesDf

SpecFilter == InitFilter /\ [][NextFilter]_vars

(* ----------------------- properties of the filter ----------------------- *)

RECURSIVE LeftFold(_, _)
\* ((v1 o1 v2) o2 v3) ... on truth values
LeftFold(vals, ops) ==
  IF Len(vals) = 1 THEN vals[1]
  ELSE LET front == LeftFold(SubSeq(vals, 1, Len(vals) - 1), SubSeq(ops, 1, Len(ops) - 1))
       IN  IF ops[Len(ops)] = "and" THEN front /\ vals[Len(vals)]
           ELSE front \/ vals[Len(vals)]

\* the value of the chain described by g on truth values: the parenthesized
\* group, if any, is one operand, and the operands are folded left to right
ChainExpected(g, truth) ==
  IF g.a = 0 THEN LeftFold(truth, g.ops)
  ELSE LeftFold(SubSeq(truth, 1, g.a - 1)
                  \o <<LeftFold(SubSeq(truth, g.a, g.b), SubSeq(g.ops, g.a, g.b - 1))>>
                  \o SubSeq(truth, g.b + 1, g.n),
                SubSeq(g.ops, 1, g.a - 1) \o SubSeq(g.ops, g.b, g.n - 1))

Truth(i) == [j \in 1..given.n |-> source[i][FieldName(j)] = IntV(1)]

\* C1: a chain of comparisons joined by and/or evaluates, in the
\* single-record evaluator and in the batch evaluator, to the strict
\* left-to-right fold of its operands, with no precedence between and and or;
\* only parentheses change the grouping.
Thm_C1_LeftToRightFold ==
  given.family = "chain" =>
    /\ \A i \in 1..Len(sat) : sat[i] = Ok(ChainExpected(given, Truth(i)))
    /\ sat_df # Pending =>
         sat_df = SeriesOk([i \in 1..Len(source) |->
                              BoolV(ChainExpected(given, Truth(i)))])

\* `x1 or x2 and x3` on a row with x1 true and x3 false is false in both
\* evaluators: (x1 or x2) and x3, where and-before-or would give true
Wit_C1_OrThenAnd ==
  /\ given.family = "chain" /\ given.n = 3 /\ given.a = 0
  /\ given.ops = <<"or", "and">>
  /\ sat_df # Pending
  /\ \E i \in 1..Len(sat) :
       /\ Truth(i)[1] /\ ~Truth(i)[3]
       /\ sat[i] = Ok(FALSE)
       /\ sat_df.vals[i] = BoolV(FALSE)

\* element i of the batch result agrees with the single-record result
Agree(r, df, i) ==
  IF r.exc # "" THEN df.exc # ""
  ELSE df.exc = "" /\ df.vals[i] = BoolV(r.val)

\* C2: for every filter and every batch of aligned rows, satisfies on row i
\* equals element i of satisfies_df, for all eight operators and for values
\* that are integers, numeric-looking text, other text, null or missing.
Cex_C2_EvaluatorsAgree ==
  (given.family = "batch" /\ sat_df # Pending) =>
    \A i \in 1..Len(sat) : Agree(sat[i], sat_df, i)

\* the text s is a decimal numeral: digits, at most one ".", a digit at least
LooksNumeric(s) ==
  /\ \E i \in 1..Len(s) : s[i] \in Digits
  /\ \A i \in 1..Len(s) : s[i] \in Digits \cup {"."}
  /\ Cardinality({i \in 1..Len(s) : s[i] = "."}) <= 1

RECURSIVE PlaceSum(_, _, _)
\* sum over the positions i..Len(s) of digit * weight, dot the place of "."
PlaceSum(s, dot, i) ==
  IF i > Len(s) THEN 0
  ELSE (IF i < dot THEN DigitVal(s[i]) * Scale * Pow10(dot - 1 - i)
        ELSE IF i > dot THEN DigitVal(s[i]) * (Scale \div Pow10(i - dot))
        ELSE 0)
       + PlaceSum(s, dot, i + 1)

\* Scale times the number the decimal numeral s denotes
DecimalValue(s) ==
  PlaceSum(s, IF \E i \in 1..Len(s) : s[i] = "."
              THEN CHOOSE i \in 1..Len(s) : s[i] = "." ELSE Len(s) + 1, 1)

\* the looked-up value is a number, or text that denotes one
ValueIsNumber(v) == v.t \in {"int", "bool"} \/ (v.t = "str" /\ LooksNumeric(v.s))
ValueNumber(v) == IF v.t = "str" THEN DecimalValue(v.s) ELSE v.n * Scale

OrderKeywords == {"eq", "ne", "gt", "gte", "lt", "lte"}

Compare(op, less, equal) ==
  CASE op = "eq" -> equal [] op = "ne" -> ~equal
    [] op = "lt" -> less [] op = "lte" -> less \/ equal
    [] op = "gt" -> ~less /\ ~equal [] op = "gte" -> ~less

Looked == Get(source[1], FieldName(1))

\* C3: in the single-record evaluator `field op literal`, op one of eq, ne,
\* gt, gte, lt, lte, compares numerically when the literal and the looked-up
\* value both parse as numbers, as text when they do not and the looked-up
\* value is text, and is false for every operator when the looked-up value is
\* null or of another type than text.
Thm_C3_NumericThenText ==
  (given.family = "record" /\ given.op \in OrderKeywords /\ sat # <<>>) =>
    sat[1] = Ok(IF LooksNumeric(given.literal) /\ ValueIsNumber(Looked)
                THEN Compare(given.op,
                             ValueNumber(Looked) < DecimalValue(given.literal),
                             ValueNumber(Looked) = DecimalValue(given.literal))
                ELSE IF Looked.t = "str"
                THEN Compare(given.op, TextLess(Looked.s, given.literal),
                             Looked.s = given.literal)
                ELSE FALSE)

\* "9" lt 11 holds, although "9" sorts after "11" as text
Wit_C3_NineLessThanEleven ==
  /\ given.family = "record" /\ given.op = "lt"
  /\ given.literal = <<"1", "1">>
  /\ Looked = StrV(<<"9">>)
  /\ sat = <<Ok(TRUE)>>

\* the referenced field is in no row of the batch
FieldAbsent ==
  \A i \in 1..Len(source) : source[i] = EmptyRow /\ destination[i] = EmptyRow

\* C4: a comparison on a field absent from the source row and from the
\* destination row is false and raises nothing, in Filter.satisfies and in
\* Filter.satisfies_df.
Cex_C4_AbsentFieldIsFalse ==
  (given.family = "batch" /\ FieldAbsent) =>
    /\ \A i \in 1..Len(sat) : sat[i] = Ok(FALSE)
    /\ sat_df # Pending =>
         sat_df = SeriesOk([i \in 1..Len(source) |-> BoolV(FALSE)])

RECURSIVE PercentMatch(_, _, _)
\* the text matches the pattern, "%" standing for any sequence and every
\* other atom for itself
PercentMatch(pattern, text, ignorecase) ==
  IF pattern = <<>> THEN text = <<>>
  ELSE IF Head(pattern) = "%"
  THEN \E k \in 0..Len(text) :
          PercentMatch(Tail(pattern), SubSeq(text, k + 1, Len(text)), ignorecase)
  ELSE /\ text # <<>>
       /\ IF ignorecase THEN Lower(Head(text)) = Lower(Head(pattern))
                        ELSE Head(text) = Head(pattern)
       /\ PercentMatch(Tail(pattern), Tail(text), ignorecase)

\* C5: `field like L` is true exactly when the whole text value matches L,
\* "%" standing for any sequence and every other character for itself
\* (ilike: ignoring case); there is no other wildcard.
Cex_C5_PercentIsTheOnlyWildcard ==
  (given.family = "record" /\ given.op \in {"like", "ilike"}
     /\ Looked.t = "str" /\ sat # <<>>) =>
    sat[1] = Ok(PercentMatch(given.literal, Looked.s, given.op = "ilike"))

RECURSIVE Nodes(_)
\* the nodes of a tree
Nodes(node) ==
  {node} \cup UNION {Nodes(node.children[i]) : i \in 1..Len(node.children)}

\* the leaf an operator keyword becomes
OperatorLeaf(k) == Node(Rule("operator_" \o k), <<>>)
OperatorLeaves(ks) == {OperatorLeaf(k) : k \in ks}

\* the keywords of the query that are operators, in the order of the text
OperatorsOf(toks) ==
  SelectSeq(toks, LAMBDA t : t.k \in DataOps \cup LogicalOps \cup {"is"})

RECURSIVE Leaves(_)
\* the leaves of a tree from left to right
RECURSIVE Flat(_, _)
Flat(nodes, i) ==
  IF i > Len(nodes) THEN <<>> ELSE Leaves(nodes[i]) \o Flat(nodes, i + 1)
Leaves(node) == IF node.children = <<>> THEN <<node>> ELSE Flat(node.children, 1)

IsOperator(node) == node \in OperatorLeaves(DataOps \cup LogicalOps \cup {"is"})

\* C26: a tree built by Node.from_parse_tree has no node with exactly one
\* child; the root of a filter that is one comparison is the comparison node
\* with its three children; the operators of the query are, in order, the
\* leaves named operator_<keyword>; and a chained_expression has an odd
\* number of children, three at least, its even children the leaves
\* operator_and / operator_or and its odd children operands.
Thm_C26_SingleChildProductionsCollapse ==
  fpc = "filter" =>
    /\ \A n \in Nodes(flt.root) :
         /\ Len(n.children) # 1
         /\ n.value = Rule("chained_expression") =>
              /\ Len(n.children) >= 3 /\ Len(n.children) % 2 = 1
              /\ \A i \in 1..Len(n.children) :
                   IF i % 2 = 0 THEN n.children[i] \in OperatorLeaves(LogicalOps)
                   ELSE ~IsOperator(n.children[i]) /\ n.children[i].children # <<>>
    /\ given.family \in {"record", "batch"} =>
         /\ flt.root.value = Rule("sequence_term_operator_term")
         /\ Len(flt.root.children) = 3
         /\ flt.root.children[2] = OperatorLeaf(given.op)
    /\ SelectSeq(Leaves(flt.root), IsOperator)
         = [i \in 1..Len(OperatorsOf(query)) |-> OperatorLeaf(OperatorsOf(query)[i].k)]

\* `(x1 eq 1) or is valid` has been built: a chain of three children whose
\* first is the comparison that stood in parentheses
Wit_C26_WrappedComparisonInChain ==
  /\ fpc = "filter"
  /\ query = <<Kw("(")>> \o Comparison(FieldName(1), "eq", <<"1">>)
               \o <<Kw(")"), Kw("or"), Kw("is"), Kw("valid")>>
  /\ flt.root.value = Rule("chained_expression")
  /\ Len(flt.root.children) = 3
  /\ flt.root.children[1].value = Rule("sequence_term_operator_term")
  /\ flt.root.children[3].value = Rule("sequence_operator_status")

\* C28: every filter Filter.from_query constructs evaluates to a boolean on
\* every record: Filter.satisfies raises nothing.
Cex_C28_ConstructedFilterEvaluates ==
  fpc = "filter" => \A i \in 1..Len(sat) : sat[i].exc = ""

(* ======================================================================= *)
(* Mapping rules (mapping_rule.py) and the interpreter (mapping_program.py) *)
(* ======================================================================= *)

\* filter: str = Field(default=None); None and "" are both "no filter"
NoFilterText == <<>>

Assign(filter, sourceField, destinationField) ==
  [type |-> "assign", filter |-> filter, sourceField |-> sourceField,
   destinationField |-> destinationField]
Constant(filter, destinationField, value) ==
  [type |-> "constant", filter |-> filter, destinationField |-> destinationField,
   value |-> value]
Delete(filter, destinationField) ==
  [type |-> "delete", filter |-> filter, destinationField |-> destinationField]
Subprogram(filter, rs) ==
  [type |-> "subprogram", filter |-> filter, rules |-> rs]
Array(filter, sourceFields, destinationField) ==
  [type |-> "array", filter |-> filter, sourceFields |-> sourceFields,
   destinationField |-> destinationField]
FindReplacePair(find, replace) == [find |-> find, replace |-> replace]
FindReplace(filter, destinationField, values) ==
  [type |-> "find-replace", filter |-> filter,
   destinationField |-> destinationField, values |-> values]
Coalesce(filter, sourceFields, destinationField, defaultValue) ==
  [type |-> "coalesce", filter |-> filter, sourceFields |-> sourceFields,
   destinationField |-> destinationField, defaultValue |-> defaultValue]
RegexExtract(filter, sourceField, regex, destinationFields) ==
  [type |-> "regex-extract", filter |-> filter, sourceField |-> sourceField,
   regex |-> regex, destinationFields |-> destinationFields]
Interpolate(filter, sourceFields, destinationField, output) ==
  [type |-> "interpolate", filter |-> filter, sourceFields |-> sourceFields,
   destinationField |-> destinationField, output |-> output]
\* separator: str = Field(default=None): Null when the rule gives none
Concatenate(filter, sourceFields, destinationField, separator) ==
  [type |-> "concatenate", filter |-> filter, sourceFields |-> sourceFields,
   destinationField |-> destinationField, separator |-> separator]

Ignore(filter, sourceField) ==
  [type |-> "ignore", filter |-> filter, sourceField |-> sourceField]
Transform(filter, sourceField, destinationField, transform) ==
  [type |-> "transform", filter |-> filter, sourceField |-> sourceField,
   destinationField |-> destinationField, transform |-> transform]

NestSubfield(sourceRegex, destinationSubfield) ==
  [sourceRegex |-> sourceRegex, destinationSubfield |-> destinationSubfield]
Nest(filter, subfields, destinationField) ==
  [type |-> "nest", filter |-> filter, subfields |-> subfields,
   destinationField |-> destinationField]

\* A regular expression with one group, [^] prefix ( group ) suffix [$]:
\* prefix and suffix are literal text, the group a list of pattern elements
\* (a literal, "." or ".*"), anchored at both ends or at none
Regex(prefix, group, suffix, anchored) ==
  [prefix |-> prefix, group |-> group, suffix |-> suffix, anchored |-> anchored]

\* A regular expression with two groups, prefix ( group ) middle ( group2 )
\* suffix, anchored at both ends or at none
Regex2(prefix, group, middle, group2, suffix, anchored) ==
  [prefix |-> prefix, group |-> group, middle |-> middle, group2 |-> group2,
   suffix |-> suffix, anchored |-> anchored]

\* re.search of a regular expression with two groups: the leftmost match, the
\* first group as long as it can be and then the second
ReSearch2(regex, text) ==
  LET n == Len(text)
      at(from, part) == SubSeq(text, from + 1, from + Len(part)) = part
      fits(s, g, h) ==
        LET a == s + Len(regex.prefix)
            b == a + g + Len(regex.middle)
            e == b + h + Len(regex.suffix)
        IN  /\ e <= n
            /\ at(s, regex.prefix)
            /\ ReMatch(regex.group, SubSeq(text, a + 1, a + g), FALSE)
            /\ at(a + g, regex.middle)
            /\ ReMatch(regex.group2, SubSeq(text, b + 1, b + h), FALSE)
            /\ at(b + h, regex.suffix)
            /\ regex.anchored => s = 0 /\ e = n
      starts == {s \in 0..n : \E g, h \in 0..n : fits(s, g, h)}
      groups_at(s) ==
        LET g == CHOOSE k \in 0..n :
                   /\ \E h \in 0..n : fits(s, k, h)
                   /\ \A l \in 0..n : (\E h \in 0..n : fits(s, l, h)) => l <= k
            h == CHOOSE k \in 0..n :
                   fits(s, g, k) /\ \A l \in 0..n : fits(s, g, l) => l <= k
            a == s + Len(regex.prefix)
            b == a + g + Len(regex.middle)
        IN  <<SubSeq(text, a + 1, a + g), SubSeq(text, b + 1, b + h)>>
  IN  IF starts = {} THEN [found |-> FALSE, groups |-> <<>>]
      ELSE [found |-> TRUE,
            groups |-> groups_at(CHOOSE s \in starts : \A t \in starts : s <= t)]

\* re.search(regex, text): the leftmost match, the greedy group as long as it
\* can be; groups is match.groups()
NoMatch == [found |-> FALSE, groups |-> <<>>]
ReSearch(regex, text) ==
  IF "group2" \in DOMAIN regex THEN ReSearch2(regex, text) ELSE
  LET fits(s, g) ==
        /\ s + Len(regex.prefix) + g + Len(regex.suffix) <= Len(text)
        /\ SubSeq(text, s + 1, s + Len(regex.prefix)) = regex.prefix
        /\ ReMatch(regex.group,
                   SubSeq(text, s + Len(regex.prefix) + 1, s + Len(regex.prefix) + g),
                   FALSE)
        /\ SubSeq(text, s + Len(regex.prefix) + g + 1,
                  s + Len(regex.prefix) + g + Len(regex.suffix)) = regex.suffix
        /\ regex.anchored =>
             s = 0 /\ Len(regex.prefix) + g + Len(regex.suffix) = Len(text)
      starts == {s \in 0..Len(text) : \E g \in 0..Len(text) : fits(s, g)}
      group_of(s) ==
        LET g == CHOOSE h \in 0..Len(text) :
                   fits(s, h) /\ \A k \in 0..Len(text) : fits(s, k) => k <= h
        IN  SubSeq(text, s + Len(regex.prefix) + 1, s + Len(regex.prefix) + g)
  IN  IF starts = {} THEN NoMatch
      ELSE [found |-> TRUE,
            groups |-> <<group_of(CHOOSE s \in starts : \A t \in starts : s <= t)>>]

\* num_values as it would be if it counted keys
num_keys(d) == Cardinality(DOMAIN d)

\* num_values(d)   (mapping_program.py:59-60)
num_values(d) == Cardinality({k \in DOMAIN d : d[k] # Null})

\* MappingProgram.__init__: Filter.from_query(rule.filter) if rule.filter else None
NoneFilter == [present |-> FALSE, root |-> NoFilter.root]
ParsedFilters(rs) ==
  [i \in 1..Len(rs) |->
     IF rs[i].filter = NoFilterText THEN NoneFilter
     ELSE [present |-> TRUE, root |-> from_query(rs[i].filter).root]]

\* every filter text of the list parses (the filters of nested rule lists are
\* not looked at: rule.rules is parsed when the subprogram rule runs)
FiltersParse(rs) ==
  \A i \in 1..Len(rs) : rs[i].filter = NoFilterText \/ from_query(rs[i].filter).ok

\* run_one.get_value   (mapping_program.py:351-356)
get_value(field_name, record, output) ==
  IF StartsWith(field_name, DEST)
  THEN Get(output, Replace(field_name, DEST))
  ELSE Get(record, field_name)

\* set_value as it would be if a back-write also wrote the output row
set_value_both(field_name, value, record, output) ==
  IF StartsWith(field_name, SRC)
  THEN [record |-> Put(record, Replace(field_name, SRC), value),
        output |-> Put(output, Replace(field_name, SRC), value)]
  ELSE [record |-> record, output |-> Put(output, field_name, value)]

\* run_one.set_value   (mapping_program.py:360-365)
set_value(field_name, value, record, output) ==
  IF StartsWith(field_name, SRC)
  THEN [record |-> Put(record, Replace(field_name, SRC), value), output |-> output]
  ELSE [record |-> record, output |-> Put(output, field_name, value)]

\* a rule body that wrote nothing
Kept(record, output) == [record |-> record, output |-> output]

\* array   (mapping_program.py:455-461)
array(r, record, output) ==
  set_value(r.destinationField,
            ListV([i \in 1..Len(r.sourceFields) |->
                     get_value(r.sourceFields[i], record, output)]),
            record, output)

\* find-replace: the first pair whose find equals the value, then break
\* (mapping_program.py:379-385)
find_replace(r, record, output) ==
  LET value == get_value(<<DEST>> \o r.destinationField, record, output)
      hits == {i \in 1..Len(r.values) : value = StrV(r.values[i].find)}
  IN  IF hits = {} THEN Kept(record, output)
      ELSE set_value(r.destinationField,
                     StrV(r.values[CHOOSE i \in hits : \A j \in hits : i <= j].replace),
                     record, output)

\* coalesce   (mapping_program.py:437-446)
coalesce(r, record, output) ==
  LET found == {i \in 1..Len(r.sourceFields) :
                  get_value(r.sourceFields[i], record, output) # Null}
  IN  IF found # {}
      THEN set_value(r.destinationField,
                     get_value(r.sourceFields[CHOOSE i \in found : \A j \in found : i <= j],
                               record, output),
                     record, output)
      ELSE IF r.defaultValue # Null
      THEN set_value(r.destinationField, r.defaultValue, record, output)
      ELSE Kept(record, output)

RECURSIVE SetGroups(_, _, _, _)
\* the loops of lines 409-418 from the i-th destination field on: the i-th
\* group, None without a match or beyond the last group; w = [record, output]
SetGroups(r, match, i, w) ==
  IF i > Len(r.destinationFields) THEN w
  ELSE SetGroups(r, match, i + 1,
         set_value(r.destinationFields[i],
                   IF match.found /\ i <= Len(match.groups)
                   THEN StrV(match.groups[i]) ELSE Null,
                   w.record, w.output))

\* regex-extract as it would be if, after a match, the destination fields
\* beyond the last group were left alone
regex_extract_groups_only(r, record, output) ==
  LET go(m) ==
        SetGroups([r EXCEPT !.destinationFields =
                     IF m.found /\ Len(m.groups) < Len(@)
                     THEN SubSeq(@, 1, Len(m.groups)) ELSE @],
                  m, 1, Kept(record, output))
  IN  go(ReSearch(r.regex, PyStr(get_value(r.sourceField, record, output), FALSE)))

\* regex-extract: re.search(rule.regex, str(match_value))
\* (mapping_program.py:401-418)
regex_extract(r, record, output) ==
  SetGroups(r, ReSearch(r.regex, PyStr(get_value(r.sourceField, record, output), FALSE)),
            1, Kept(record, output))

\* str(value or "")
StrOrEmpty(value) == IF Falsy(value) THEN <<>> ELSE PyStr(value, FALSE)

RECURSIVE Replaced(_, _, _, _, _)
\* the loop of lines 421-424 from source field idx (counted from 0) on
Replaced(r, idx, output_value, record, output) ==
  IF idx >= Len(r.sourceFields) THEN output_value
  ELSE Replaced(r, idx + 1,
         StrReplace(output_value, <<"{">> \o IntText(idx) \o <<"}">>,
                    StrOrEmpty(get_value(r.sourceFields[idx + 1], record, output))),
         record, output)

\* interpolate   (mapping_program.py:419-425)
interpolate(r, record, output) ==
  set_value(r.destinationField, StrV(Replaced(r, 0, r.output, record, output)),
            record, output)

\* concatenate: separator = rule.separator or ","   (mapping_program.py:447-453)
concatenate(r, record, output) ==
  set_value(r.destinationField,
            StrV(Join([i \in 1..Len(r.sourceFields) |->
                         StrOrEmpty(get_value(r.sourceFields[i], record, output))],
                      IF Falsy(r.separator) THEN <<",">> ELSE r.separator.s)),
            record, output)

\* mapping_program.as_number(s) on text: int(float(s) * 1_000), None when
\* float() raises ValueError   (mapping_program.py:23-27)
program_as_number(s) ==
  LET thousands(f) == IF f.ok THEN Number((f.num * 1000) \div Scale) ELSE NoNumber
  IN  thousands(IF IntOfText(s).ok THEN IntOfText(s) ELSE FloatOfText(s))

\* d.get(key) and d[key] = value on the pairs of a dict
CONTROL == <<"_", "_", "c", "o", "n", "t", "r", "o", "l">>
PairGet(pairs, key) ==
  IF \E i \in 1..Len(pairs) : pairs[i].key = key
  THEN pairs[CHOOSE i \in 1..Len(pairs) : pairs[i].key = key].value
  ELSE Null
PairPut(pairs, key, value) ==
  IF \E i \in 1..Len(pairs) : pairs[i].key = key
  THEN [i \in 1..Len(pairs) |->
          IF pairs[i].key = key THEN [key |-> key, value |-> value] ELSE pairs[i]]
  ELSE Append(pairs, [key |-> key, value |-> value])

\* cmp_by_control(a, b): negative, zero or positive   (mapping_program.py:34-52)
cmp_by_control(a, b) ==
  LET a_control == PairGet(a.pairs, CONTROL)
      b_control == PairGet(b.pairs, CONTROL)
      a_num == program_as_number(a_control.s)
      b_num == program_as_number(b_control.s)
  IN  IF a_num.ok /\ b_num.ok THEN a_num.num - b_num.num
      ELSE IF a_num.ok THEN -1
      ELSE IF b_num.ok THEN 1
      ELSE IF PyStr(a_control, FALSE) = PyStr(b_control, FALSE) THEN 0
      ELSE IF TextLess(PyStr(b, FALSE), PyStr(a, FALSE)) THEN 1 ELSE -1

RECURSIVE Sorted(_)
\* sorted(values, key=by_control): stable, an element goes behind every
\* element it is not less than
Sorted(values) ==
  IF values = <<>> THEN <<>>
  ELSE LET front == Sorted(SubSeq(values, 1, Len(values) - 1))
           last == values[Len(values)]
           k == Cardinality({i \in 1..Len(front) :
                               \E j \in i..Len(front) : cmp_by_control(last, front[j]) >= 0})
       IN  SubSeq(front, 1, k) \o <<last>> \o SubSeq(front, k + 1, Len(front))

RECURSIVE KeysOf(_)
\* `for key in record`: the rows of the model hold their keys in ascending
\* order of the key text
KeysOf(keys) ==
  IF keys = {} THEN <<>>
  ELSE LET first == CHOOSE k \in keys : \A o \in keys : ~TextLess(o, k)
       IN  <<first>> \o KeysOf(keys \ {first})

RECURSIVE Nested(_, _, _, _, _, _)
\* the loops of lines 467-480 from key j of subfield i on; nested is the dict
\* of buckets, a list of dicts in the order their controls first appeared
Nested(r, i, j, nested, record, output) ==
  IF i > Len(r.subfields) THEN nested
  ELSE IF j > Cardinality(DOMAIN record)
  THEN Nested(r, i + 1, 1, nested, record, output)
  ELSE LET key == KeysOf(DOMAIN record)[j]
           into(match) ==
             IF ~match.found THEN nested
             ELSE LET control == StrV(match.groups[1])
                      at == {n \in 1..Len(nested) :
                               PairGet(nested[n].pairs, CONTROL) = control}
                      assigned(buckets) ==
                        [n \in 1..Len(buckets) |->
                           IF (at = {} /\ n = Len(buckets)) \/ n \in at
                           THEN DictV(PairPut(buckets[n].pairs,
                                              r.subfields[i].destinationSubfield,
                                              get_value(key, record, output)))
                           ELSE buckets[n]]
                  IN  assigned(IF at = {}
                               THEN Append(nested, DictV(<<[key |-> CONTROL,
                                                           value |-> control]>>))
                               ELSE nested)
       IN  Nested(r, i, j + 1, into(ReSearch(r.subfields[i].sourceRegex, key)),
                  record, output)

\* nest as it would be if only the first subfield were scanned for
nest_first_subfield(r, record, output) ==
  set_value(r.destinationField,
            ListV(Sorted(Nested([r EXCEPT !.subfields = SubSeq(@, 1, 1)],
                                1, 1, <<>>, record, output))),
            record, output)

\* nest   (mapping_program.py:463-487)
nest(r, record, output) ==
  set_value(r.destinationField, ListV(Sorted(Nested(r, 1, 1, <<>>, record, output))),
            record, output)

\* transform: str(value).lower() or .upper() of a truthy value, any other
\* value as it is   (mapping_program.py:393-400)
transform(r, record, output) ==
  LET cased(value) ==
        IF Falsy(value) \/ r.transform \notin {"lowercase", "uppercase"} THEN value
        ELSE StrV([i \in 1..Len(PyStr(value, FALSE)) |->
                     IF r.transform = "lowercase" THEN Lower(PyStr(value, FALSE)[i])
                     ELSE Upper(PyStr(value, FALSE)[i])])
  IN  set_value(r.destinationField, cased(get_value(r.sourceField, record, output)),
                record, output)

\* source_fields as it would be if subprogram rules contributed nothing
source_fields_flat(rs) ==
  LET own(i) ==
        IF rs[i].type \in {"assign", "ignore", "transform", "regex-extract"}
        THEN {rs[i].sourceField}
        ELSE IF rs[i].type \in {"interpolate", "coalesce", "concatenate", "array"}
        THEN {rs[i].sourceFields[j] : j \in 1..Len(rs[i].sourceFields)}
        ELSE {}
  IN  Ok({f \in UNION {own(i) : i \in 1..Len(rs)} : ~StartsWith(f, DEST)})

RECURSIVE source_fields(_)
\* MappingProgram.source_fields   (mapping_program.py:491-532): the set of
\* names before it is listed, or the exception of a subprogram's constructor
source_fields(rs) ==
  LET subprograms == {i \in 1..Len(rs) : rs[i].type = "subprogram"}
      own(i) ==
        IF rs[i].type \in {"assign", "ignore", "transform", "regex-extract"}
        THEN {rs[i].sourceField}
        ELSE IF rs[i].type \in {"interpolate", "coalesce", "concatenate", "array"}
        THEN {rs[i].sourceFields[j] : j \in 1..Len(rs[i].sourceFields)}
        ELSE IF rs[i].type = "subprogram"
        THEN {f \in source_fields(rs[i].rules).val : TRUE}
        ELSE {}
  IN  IF \E i \in subprograms :
           ~FiltersParse(rs[i].rules) \/ source_fields(rs[i].rules).exc # ""
      THEN Raise("UnexpectedInput")
      ELSE Ok({f \in UNION {own(i) : i \in 1..Len(rs)} : ~StartsWith(f, DEST)})

\* the call of run_one(record, initial_output): output = initial_output or {}
Frame(rs, fs, initial_output) ==
  [rules |-> rs, filters |-> fs, idx |-> 1, output |-> initial_output]

\* line 436 as it would be without the assignment: the caller keeps its own
\* dict, which is the callee's only when it was not empty
KeepOutput(outer_output, returned) ==
  IF outer_output = EmptyRow THEN outer_output ELSE returned

\* output = subprogram.run_one(record, output)   (mapping_program.py:436)
AfterSubprogram(outer_output, returned) == returned

(* ------------------------- the programs drawn --------------------------- *)

X == <<"x">>
Y == <<"y">>
Z == <<"z">>

F_x1 == Comparison(X, "eq", <<"1">>)
F_dy1 == Comparison(<<DEST>> \o Y, "eq", <<"1">>)
\* `x eq`: not a query of the grammar
F_bad == <<Tok("characters", X), Kw("eq")>>

FlatRules ==
  { Assign(NoFilterText, X, Y),
    Assign(F_dy1, <<DEST>> \o Y, Z),
    Constant(F_x1, Y, IntV(1)),
    Constant(NoFilterText, <<SRC>> \o X, IntV(1)),
    Delete(NoFilterText, Y),
    Constant(F_bad, Y, IntV(1)) }

Subprograms ==
  { Subprogram(NoFilterText, <<Constant(NoFilterText, Y, IntV(1))>>),
    Subprogram(F_x1, <<Constant(NoFilterText, Y, IntV(1)),
                       Assign(F_dy1, <<DEST>> \o Y, Z)>>),
    Subprogram(NoFilterText, <<Constant(F_bad, Y, IntV(1))>>),
    Subprogram(NoFilterText,
               <<Subprogram(NoFilterText, <<Assign(NoFilterText, X, Z)>>)>>) }

RulePool == FlatRules \cup Subprograms

Programs == SeqsUpTo(RulePool, MaxRules) \ {<<>>}

RecordPool == {[k \in {X} |-> IntV(1)], EmptyRow}

\* find-replace on the value an assign has put at the destination
Pairs == {FindReplacePair(f, r) : f \in {<<"a">>, <<"b">>}, r \in {<<"b">>, <<"c">>}}
FindReplacePrograms ==
  {<<Assign(NoFilterText, X, Y), FindReplace(NoFilterText, Y, ps)>> :
     ps \in SeqsUpTo(Pairs, MaxPairs) \ {<<>>}}
FindReplaceRecords ==
  {<<RowWith(X, v)>> :
     v \in {StrV(<<"a">>), StrV(<<"b">>), StrV(<<"a", "b">>), IntV(1), Null, Missing}}

\* rules over a list of source fields x1, x2, ...: each field is missing, null
\* or holds its own number
Fields(k) == [i \in 1..k |-> FieldName(i)]
FieldRows ==
  {[f \in {FieldName(i) : i \in D} |->
      IF f \in {FieldName(i) : i \in N} THEN Null ELSE IntV(DigitVal(f[2]))] :
     D \in SUBSET (1..MaxFields), N \in SUBSET (1..MaxFields)}
CoalescePrograms ==
  LET last == {Coalesce(NoFilterText, Fields(k), Y, d) :
                 k \in 1..MaxFields, d \in {Null, IntV(0)}}
  IN  {<<c>> : c \in last} \cup {<<Constant(NoFilterText, Y, StrV(<<"a">>)), c>> : c \in last}
ArrayPrograms == {<<Array(NoFilterText, Fields(k), Y)>> : k \in 1..MaxFields}

\* regex-extract from x: `^S(.*)$`, `(.)`, `(.*)` and `(.)(.*)`
Regexes ==
  {Regex(<<"S">>, LikeRegex(<<"%">>), <<>>, TRUE),
   Regex(<<>>, LikeRegex(<<".">>), <<>>, FALSE),
   Regex(<<>>, LikeRegex(<<"%">>), <<>>, FALSE),
   Regex2(<<>>, LikeRegex(<<".">>), <<>>, LikeRegex(<<"%">>), <<>>, FALSE)}
RegexExtractPrograms ==
  {<<Constant(NoFilterText, <<"v">>, IntV(1)), RegexExtract(NoFilterText, X, rgx, fs)>> :
     rgx \in Regexes, fs \in {<<Y>>, <<Y, Z>>, <<Y, Z, <<"w">>>>}}
RegexExtractRecords ==
  {<<RowWith(X, v)>> : v \in {StrV(<<"S", "a">>), StrV(<<"a">>), IntV(1), Null, Missing}}

\* interpolate and concatenate over x1, x2, ...: each field is missing, null, 0,
\* a text, or a text that reads like a placeholder
TextRows ==
  LET cells == {Missing, Null, IntV(0), StrV(<<"a">>), StrV(<<"{", "1", "}">>)}
  IN  {[f \in {FieldName(i) : i \in {j \in 1..MaxFields : c[j] # Missing}} |->
          c[DigitVal(f[2])]] : c \in [1..MaxFields -> cells]}
Templates == {<<"{", "0", "}">>, <<"a", "{", "0", "}", "{", "1", "}">>,
              <<"{", "1", "}", "{", "0", "}">>}
InterpolatePrograms ==
  {<<Interpolate(NoFilterText, Fields(k), Y, t)>> : k \in 1..MaxFields, t \in Templates}
ConcatenatePrograms ==
  {<<Concatenate(NoFilterText, Fields(k), Y, sep)>> :
     k \in 1..MaxFields, sep \in {Null, StrV(<<>>), StrV(<<"-">>)}}

\* nest of the columns p<token> and q<token> into y: tokens 2, 10, a, "a b"
\* and b; every column holds its own name
NestPrograms ==
  LET p == Regex(<<"p">>, LikeRegex(<<"%">>), <<>>, TRUE)
      q == Regex(<<"q">>, LikeRegex(<<"%">>), <<>>, TRUE)
  IN  {<<Nest(NoFilterText, <<NestSubfield(p, <<"v">>)>>, Y)>>,
       <<Nest(NoFilterText, <<NestSubfield(p, <<"v">>), NestSubfield(p, <<"w">>)>>, Y)>>,
       <<Nest(NoFilterText, <<NestSubfield(p, <<"v">>), NestSubfield(q, <<"w">>)>>, Y)>>}
NestKeys ==
  {<<"p", "2">>, <<"p", "1", "0">>, <<"p", "a">>, <<"p", "a", " ", "b">>,
   <<"p", "b">>, <<"q", "2">>, <<"q", "a">>, X}
NestRecords ==
  {<<[k \in D |-> StrV(k)]>> :
     D \in {S \in SUBSET NestKeys : Cardinality(S) \in 1..MaxFields}}

\* ignore and transform of x
TransformPrograms ==
  {<<Ignore(NoFilterText, X), Transform(NoFilterText, X, Y, t)>> :
     t \in {"uppercase", "lowercase"}}
TransformRecords ==
  {<<RowWith(X, v)>> : v \in {StrV(<<"a", "J">>), IntV(0), IntV(1), Null, Missing}}

\* programs whose rules name fields at several depths, some of them twice and
\* some on the output row
FieldPrograms ==
  LET inner == Subprogram(NoFilterText,
                  <<Concatenate(NoFilterText, <<FieldName(2), FieldName(3)>>, Z, Null),
                    Assign(NoFilterText, <<DEST>> \o Z, Y)>>)
      outer(rs) == Subprogram(F_x1, rs)
  IN  {<<Assign(NoFilterText, FieldName(1), Y), outer(<<inner>>)>>,
       <<Coalesce(NoFilterText, Fields(2), Y, Null),
         outer(<<Array(NoFilterText, Fields(2), Z), inner>>)>>,
       <<outer(<<inner, Delete(NoFilterText, Y)>>),
         RegexExtract(NoFilterText, FieldName(3),
                      Regex(<<>>, LikeRegex(<<".">>), <<>>, FALSE), <<Y>>)>>,
       <<outer(<<inner>>), outer(<<Constant(F_bad, Y, IntV(1))>>)>>}
FieldRecords ==
  {<<Put(r, X, IntV(1))>> : r \in FieldRows}

\* the programs and the records run() is given
Drawn ==
  (Programs \X [1..NRecords -> RecordPool])
    \cup (FindReplacePrograms \X FindReplaceRecords)
    \cup ((CoalescePrograms \cup ArrayPrograms) \X {<<r>> : r \in FieldRows})
    \cup (RegexExtractPrograms \X RegexExtractRecords)
    \cup ((InterpolatePrograms \cup ConcatenatePrograms) \X {<<r>> : r \in TextRows})
    \cup (NestPrograms \X NestRecords)
    \cup (TransformPrograms \X TransformRecords)
    \cup (FieldPrograms \X FieldRecords)

(* ----------------------------- the machine ------------------------------ *)

\* the filter harness is not in use
NoQuery ==
  /\ query = <<>> /\ given = [family |-> "none"]
  /\ source = <<>> /\ destination = <<>>
  /\ flt = NoFilter /\ fpc = "idle" /\ sat = <<>> /\ sat_df = Pending

Init ==
  /\ \E d \in Drawn : rules = d[1] /\ records = d[2]
  /\ records0 = records
  /\ filters = <<>>
  /\ pc = "new"
  /\ transformed = <<>>
  /\ result = <<>>
  /\ stack = <<>>
  /\ fields = <<>>
  /\ err = ""
  /\ NoQuery
  /\ NoGroups

\* MappingProgram(rules)   (mapping_program.py:64-70)
Construct ==
  /\ pc = "new"
  /\ IF FiltersParse(rules)
     THEN filters' = ParsedFilters(rules) /\ pc' = "ready" /\ err' = ""
     ELSE filters' = filters /\ pc' = "invalid" /\ err' = "UnexpectedInput"
  /\ UNCHANGED <<rules, records, records0, transformed, result, stack, fields, fvars, gvars>>

\* the record run() is at, and the innermost run_one call
ri == Len(transformed) + 1
Top == stack[Len(stack)]
InRule == pc = "run" /\ stack # <<>> /\ Top.idx <= Len(Top.rules)
rule == Top.rules[Top.idx]

\* the test of line 372 as it would be if the filter were not consulted
SatisfiedAlways == Ok(TRUE)

\* filter and not filter.satisfies(record, output)   (mapping_program.py:371-372)
Satisfied ==
  IF Top.filters[Top.idx].present
  THEN satisfies(Top.filters[Top.idx].root, records[ri], Top.output)
  ELSE Ok(TRUE)

\* the innermost call goes on to its next rule with the given output
Advance(output) ==
  [stack EXCEPT ![Len(stack)] = [@ EXCEPT !.idx = @ + 1, !.output = output]]

\* run(): the next record's run_one(record) starts   (mapping_program.py:82, 345)
RunOne ==
  /\ pc \in {"ready", "run"}
  /\ stack = <<>>
  /\ Len(transformed) < Len(records)
  /\ stack' = <<Frame(rules, filters, EmptyRow)>>
  /\ pc' = "run"
  /\ UNCHANGED <<rules, filters, records, records0, transformed, result, err, fields, fvars, gvars>>

\* the rule's filter does not hold: continue   (mapping_program.py:372-373)
Skip ==
  /\ InRule
  /\ Satisfied = Ok(FALSE)
  /\ stack' = Advance(Top.output)
  /\ UNCHANGED <<rules, filters, pc, records, records0, transformed, result, err, fields, fvars, gvars>>

\* a rule wrote value to field_name
Write(field_name, value) ==
  LET w == set_value(field_name, value, records[ri], Top.output)
  IN  /\ records' = [records EXCEPT ![ri] = w.record]
      /\ stack' = Advance(w.output)

\* assign   (mapping_program.py:375-377)
RunAssign ==
  /\ InRule
  /\ Satisfied = Ok(TRUE)
  /\ rule.type = "assign"
  /\ Write(rule.destinationField,
           get_value(rule.sourceField, records[ri], Top.output))
  /\ UNCHANGED <<rules, filters, pc, records0, transformed, result, err, fields, fvars, gvars>>

\* constant   (mapping_program.py:390-392)
RunConstant ==
  /\ InRule
  /\ Satisfied = Ok(TRUE)
  /\ rule.type = "constant"
  /\ Write(rule.destinationField, rule.value)
  /\ UNCHANGED <<rules, filters, pc, records0, transformed, result, err, fields, fvars, gvars>>

\* the body of the rule at hand left the rows w
Ran(w) ==
  /\ records' = [records EXCEPT ![ri] = w.record]
  /\ stack' = Advance(w.output)

\* find-replace   (mapping_program.py:379-385)
RunFindReplace ==
  /\ InRule
  /\ Satisfied = Ok(TRUE)
  /\ rule.type = "find-replace"
  /\ Ran(find_replace(rule, records[ri], Top.output))
  /\ UNCHANGED <<rules, filters, pc, records0, transformed, result, err, fields, fvars, gvars>>

\* coalesce   (mapping_program.py:437-446)
RunCoalesce ==
  /\ InRule
  /\ Satisfied = Ok(TRUE)
  /\ rule.type = "coalesce"
  /\ Ran(coalesce(rule, records[ri], Top.output))
  /\ UNCHANGED <<rules, filters, pc, records0, transformed, result, err, fields, fvars, gvars>>

\* array   (mapping_program.py:455-461)
RunArray ==
  /\ InRule
  /\ Satisfied = Ok(TRUE)
  /\ rule.type = "array"
  /\ Ran(array(rule, records[ri], Top.output))
  /\ UNCHANGED <<rules, filters, pc, records0, transformed, result, err, fields, fvars, gvars>>

\* regex-extract   (mapping_program.py:401-418)
RunRegexExtract ==
  /\ InRule
  /\ Satisfied = Ok(TRUE)
  /\ rule.type = "regex-extract"
  /\ Ran(regex_extract(rule, records[ri], Top.output))
  /\ UNCHANGED <<rules, filters, pc, records0, transformed, result, err, fields, fvars, gvars>>

\* interpolate   (mapping_program.py:419-425)
RunInterpolate ==
  /\ InRule
  /\ Satisfied = Ok(TRUE)
  /\ rule.type = "interpolate"
  /\ Ran(interpolate(rule, records[ri], Top.output))
  /\ UNCHANGED <<rules, filters, pc, records0, transformed, result, err, fields, fvars, gvars>>

\* concatenate   (mapping_program.py:447-453)
RunConcatenate ==
  /\ InRule
  /\ Satisfied = Ok(TRUE)
  /\ rule.type = "concatenate"
  /\ Ran(concatenate(rule, records[ri], Top.output))
  /\ UNCHANGED <<rules, filters, pc, records0, transformed, result, err, fields, fvars, gvars>>

\* ignore: nothing is done   (mapping_program.py:386-388)
RunIgnore ==
  /\ InRule
  /\ Satisfied = Ok(TRUE)
  /\ rule.type = "ignore"
  /\ Ran(Kept(records[ri], Top.output))
  /\ UNCHANGED <<rules, filters, pc, records0, transformed, result, err, fields, fvars, gvars>>

\* transform   (mapping_program.py:393-400)
RunTransform ==
  /\ InRule
  /\ Satisfied = Ok(TRUE)
  /\ rule.type = "transform"
  /\ Ran(transform(rule, records[ri], Top.output))
  /\ UNCHANGED <<rules, filters, pc, records0, transformed, result, err, fields, fvars, gvars>>

\* the lists that hold the members of a set once each, in any order
Listings(S) ==
  {l \in [1..Cardinality(S) -> S] : \A i, j \in 1..Cardinality(S) : l[i] = l[j] => i = j}

\* program.source_fields() on the constructed program: the list of the set
\* comes in the set's iteration order   (mapping_program.py:491-532)
SourceFields ==
  /\ pc = "ready"
  /\ pc' = "source_fields"
  /\ IF source_fields(rules).exc = ""
     THEN /\ fields' \in Listings(source_fields(rules).val)
          /\ err' = err
     ELSE /\ fields' = fields
          /\ err' = source_fields(rules).exc
  /\ UNCHANGED <<rules, filters, records, records0, transformed, result, stack, fvars, gvars>>

\* nest   (mapping_program.py:463-487)
RunNest ==
  /\ InRule
  /\ Satisfied = Ok(TRUE)
  /\ rule.type = "nest"
  /\ Ran(nest(rule, records[ri], Top.output))
  /\ UNCHANGED <<rules, filters, pc, records0, transformed, result, err, fields, fvars, gvars>>

\* delete of a field the output row has   (mapping_program.py:431-432)
RunDelete ==
  /\ InRule
  /\ Satisfied = Ok(TRUE)
  /\ rule.type = "delete"
  /\ rule.destinationField \in DOMAIN Top.output
  /\ stack' = Advance(Del(Top.output, rule.destinationField))
  /\ UNCHANGED <<rules, filters, pc, records, records0, transformed, result, err, fields, fvars, gvars>>

\* subprogram: MappingProgram(rule.rules) is built and its run_one is called
\* with the current output   (mapping_program.py:433-436)
RunSubprogram ==
  /\ InRule
  /\ Satisfied = Ok(TRUE)
  /\ rule.type = "subprogram"
  /\ FiltersParse(rule.rules)
  /\ stack' = Append(stack, Frame(rule.rules, ParsedFilters(rule.rules), Top.output))
  /\ UNCHANGED <<rules, filters, pc, records, records0, transformed, result, err, fields, fvars, gvars>>

\* the exception the rule at hand raises, "" if none: from its filter, from
\* del of an absent key, from the filters of a subprogram's rule list
Raised ==
  IF Satisfied.exc # "" THEN Satisfied.exc
  ELSE IF Satisfied = Ok(FALSE) THEN ""
  ELSE IF rule.type = "delete" /\ rule.destinationField \notin DOMAIN Top.output
  THEN "KeyError"
  ELSE IF rule.type = "subprogram" /\ ~FiltersParse(rule.rules)
  THEN "UnexpectedInput"
  ELSE ""

\* an exception leaves every run_one call in progress and run() itself
Raises ==
  /\ InRule
  /\ Raised # ""
  /\ err' = Raised
  /\ pc' = "failed"
  /\ stack' = <<>>
  /\ UNCHANGED <<rules, filters, records, records0, transformed, result, fields, fvars, gvars>>

\* Return as it would be if the calling run_one stayed at its subprogram rule
ReturnToSameRule ==
  /\ pc = "run"
  /\ stack # <<>>
  /\ Top.idx > Len(Top.rules)
  /\ IF Len(stack) = 1
     THEN /\ transformed' = Append(transformed, Top.output)
          /\ stack' = <<>>
     ELSE /\ transformed' = transformed
          /\ stack' = [SubSeq(stack, 1, Len(stack) - 1) EXCEPT ![Len(stack) - 1] =
                         [@ EXCEPT !.output = AfterSubprogram(@, Top.output)]]
  /\ UNCHANGED <<rules, filters, pc, records, records0, result, err, fields, fvars, gvars>>

\* return output   (mapping_program.py:489): to run(), or to the subprogram
\* rule of the calling run_one
Return ==
  /\ pc = "run"
  /\ stack # <<>>
  /\ Top.idx > Len(Top.rules)
  /\ IF Len(stack) = 1
     THEN /\ transformed' = Append(transformed, Top.output)
          /\ stack' = <<>>
     ELSE /\ transformed' = transformed
          /\ stack' = [SubSeq(stack, 1, Len(stack) - 1) EXCEPT ![Len(stack) - 1] =
                         [@ EXCEPT !.idx = @ + 1,
                                   !.output = AfterSubprogram(@, Top.output)]]
  /\ UNCHANGED <<rules, filters, pc, records, records0, result, err, fields, fvars, gvars>>

\* run() returns the records that have values   (mapping_program.py:84)
RunReturn ==
  /\ pc = "run"
  /\ stack = <<>>
  /\ Len(transformed) = Len(records)
  /\ result' = SelectSeq(transformed, LAMBDA record : num_values(record) > 0)
  /\ pc' = "done"
  /\ UNCHANGED <<rules, filters, records, records0, transformed, stack, err, fields, fvars, gvars>>

Next ==
  \/ Construct \/ RunOne \/ Skip \/ RunAssign \/ RunConstant \/ RunDelete
  \/ RunSubprogram \/ Raises \/ Return \/ RunReturn
  \/ RunFindReplace \/ RunCoalesce \/ RunArray
  \/ RunRegexExtract \/ RunInterpolate \/ RunConcatenate \/ RunNest
  \/ RunIgnore \/ RunTransform \/ SourceFields

Spec == Init /\ [][Next]_vars

\* programs with subprogram rules inside subprogram rules, every type of rule
\* among their rules: one that ends, one that ends in the KeyError of a
\* delete, one of empty rule lists
NestedPrograms ==
  LET dot == Regex(<<>>, LikeRegex(<<".">>), <<>>, FALSE)
      p == Regex(<<"p">>, LikeRegex(<<"%">>), <<>>, TRUE)
  IN  { <<Assign(NoFilterText, X, Y),
          Subprogram(F_x1,
            <<Constant(NoFilterText, Z, IntV(1)),
              Subprogram(NoFilterText,
                <<Ignore(NoFilterText, X),
                  Transform(F_x1, X, Y, "uppercase"),
                  Delete(NoFilterText, Z)>>),
              FindReplace(NoFilterText, Y,
                          <<FindReplacePair(<<"a">>, <<"b">>)>>)>>),
          Coalesce(NoFilterText, <<X, Y>>, Z, Null)>>,
        <<Subprogram(NoFilterText,
            <<Array(NoFilterText, <<X>>, Y),
              RegexExtract(NoFilterText, X, dot, <<Z>>),
              Subprogram(F_x1,
                <<Interpolate(NoFilterText, <<X>>, Y, <<"{", "0", "}">>),
                  Concatenate(NoFilterText, <<X, Y>>, Z, Null),
                  Nest(NoFilterText, <<NestSubfield(p, <<"v">>)>>, Y)>>)>>),
          Delete(NoFilterText, <<"v">>)>>,
        <<Subprogram(NoFilterText, <<Subprogram(NoFilterText, <<>>)>>)>> }
NestedRecords ==
  {<<r>> : r \in {RowWith(X, IntV(1)), RowWith(X, StrV(<<"a">>)), EmptyRow}}
    \cup {<<RowWith(X, IntV(1)), EmptyRow>>}

InitFair ==
  /\ rules \in NestedPrograms
  /\ records \in NestedRecords
  /\ records0 = records
  /\ filters = <<>>
  /\ pc = "new"
  /\ transformed = <<>>
  /\ result = <<>>
  /\ stack = <<>>
  /\ fields = <<>>
  /\ err = ""
  /\ NoQuery
  /\ NoGroups

\* the interpreter is not suspended: a call in progress takes its next step
SpecFair == InitFair /\ [][Next]_vars /\ WF_vars(Next)

(* ======================================================================= *)
(* Properties of the interpreter                                            *)
(* ======================================================================= *)

\* every filter text of the rules and of the rules nested in them is a query
RECURSIVE AllFiltersValid(_)
AllFiltersValid(rs) ==
  \A i \in 1..Len(rs) :
     /\ rs[i].filter = NoFilterText \/ from_query(rs[i].filter).ok
     /\ rs[i].type = "subprogram" => AllFiltersValid(rs[i].rules)

\* C6: constructing a program fails whenever the filter text of a rule, at
\* any depth of nesting, is not a query of the grammar; so a program that was
\* constructed never raises a parse error when it runs.
Cex_C6_InvalidFilterFailsConstruction ==
  /\ ~AllFiltersValid(rules) => pc \in {"new", "invalid"}
  /\ pc = "failed" => err # "UnexpectedInput"

\* C7: a rule whose filter is false on (source row, output row) is skipped:
\* the step leaves the source row and the output row as they were, raises
\* nothing, and enters no inner rule of a subprogram.
Thm_C7_FilteredOutRuleIsSkipped ==
  [][ ( /\ InRule
        /\ rule.filter # NoFilterText
        /\ satisfies(from_query(rule.filter).root, records[ri], Top.output) = Ok(FALSE) )
      => /\ records' = records
         /\ pc' = pc /\ err' = err
         /\ transformed' = transformed
         /\ Len(stack') = Len(stack)
         /\ stack' = [stack EXCEPT ![Len(stack)] = [@ EXCEPT !.idx = @ + 1]] ]_vars

\* a subprogram whose filter `x eq 1` is false on a record without x has
\* been passed, and the output row is still empty
Wit_C7_SubprogramSkipped ==
  /\ pc = "run" /\ Len(stack) = 1
  /\ Top.idx = 2
  /\ Top.rules[1].type = "subprogram" /\ Top.rules[1].filter = F_x1
  /\ records[ri] = EmptyRow /\ records0[ri] = EmptyRow
  /\ Top.output = EmptyRow

(* The rules one after another, as a function of the rows: the reference the
   interpreter's steps are compared with.  st = [record, output, exc]. *)
Started(record) == [record |-> record, output |-> EmptyRow, exc |-> ""]
Fail(st) == [st EXCEPT !.exc = "raised"]
Done(w) == [record |-> w.record, output |-> w.output, exc |-> ""]

RECURSIVE RunRules(_, _, _)
RunRule(r, st) ==
  LET body ==
        CASE r.type = "assign" ->
               Done(set_value(r.destinationField,
                              get_value(r.sourceField, st.record, st.output),
                              st.record, st.output))
          [] r.type = "constant" ->
               Done(set_value(r.destinationField, r.value, st.record, st.output))
          [] r.type = "delete" ->
               IF r.destinationField \in DOMAIN st.output
               THEN [st EXCEPT !.output = Del(@, r.destinationField)]
               ELSE Fail(st)
          [] r.type = "subprogram" -> RunRules(r.rules, 1, st)
          [] r.type = "find-replace" -> Done(find_replace(r, st.record, st.output))
          [] r.type = "coalesce" -> Done(coalesce(r, st.record, st.output))
          [] r.type = "array" -> Done(array(r, st.record, st.output))
          [] r.type = "regex-extract" -> Done(regex_extract(r, st.record, st.output))
          [] r.type = "interpolate" -> Done(interpolate(r, st.record, st.output))
          [] r.type = "concatenate" -> Done(concatenate(r, st.record, st.output))
          [] r.type = "nest" -> Done(nest(r, st.record, st.output))
          [] r.type = "ignore" -> Done(Kept(st.record, st.output))
          [] r.type = "transform" -> Done(transform(r, st.record, st.output))
      when(h) == IF h.exc # "" THEN Fail(st) ELSE IF h.val THEN body ELSE st
      filtered(f) ==
        IF f.ok THEN when(satisfies(f.root, st.record, st.output)) ELSE Fail(st)
  IN  IF r.filter = NoFilterText THEN body ELSE filtered(from_query(r.filter))

RunRules(rs, i, st) ==
  IF i > Len(rs) \/ st.exc # "" THEN st
  ELSE RunRules(rs, i + 1, RunRule(rs[i], st))

\* C8: the rules run in program order and each one, its filter and its
\* destination! reads included, sees the output row as the rules before it
\* left it, the inner rules of an earlier subprogram among them (also when
\* the subprogram started from the empty output row); inner rules see the
\* writes made before their subprogram.  So the rows between two top-level
\* rules, and the row run_one returns, are those of the rules applied one
\* after another.
Thm_C8_RulesInProgramOrder ==
  /\ \A i \in 1..Len(transformed) :
       LET e == RunRules(rules, 1, Started(records0[i]))
       IN  e.exc = "" /\ transformed[i] = e.output /\ records[i] = e.record
  /\ (pc = "run" /\ Len(stack) = 1) =>
       LET e == RunRules(SubSeq(rules, 1, Top.idx - 1), 1, Started(records0[ri]))
       IN  e.exc = "" /\ Top.output = e.output /\ records[ri] = e.record

\* a subprogram that started from the empty output row wrote y, and the next
\* rule, filtered on destination!y and reading destination!y, copied it to z
Wit_C8_SeesSubprogramWrite ==
  /\ Len(transformed) >= 1
  /\ Len(rules) = 2
  /\ rules[1].type = "subprogram"
  /\ rules[2] = Assign(F_dy1, <<DEST>> \o Y, Z)
  /\ records0[1] = EmptyRow
  /\ transformed[1] = Put(Put(EmptyRow, Y, IntV(1)), Z, IntV(1))

\* the value the rule at hand writes
Written ==
  IF rule.type = "constant" THEN rule.value
  ELSE get_value(rule.sourceField, records[ri], Top.output)

\* C9: a rule changes the source row only when its destination name starts
\* with source!; the value then goes to the source row under the name
\* without the prefix and the output row stays as it was, where a later
\* unprefixed read finds it; every other write changes the output row only.
Thm_C9_BackWriteGoesToSource ==
  [][ InRule =>
      LET output_after == stack'[Len(stack)].output
      IN  /\ records' # records =>
                /\ rule.type \in {"assign", "constant"}
                /\ Head(rule.destinationField) = SRC
          /\ ( /\ rule.type \in {"assign", "constant"}
               /\ Head(rule.destinationField) = SRC
               /\ Satisfied = Ok(TRUE) ) =>
                /\ records' = [records EXCEPT
                                 ![ri] = Put(@, Tail(rule.destinationField), Written)]
                /\ Len(stack') = Len(stack)
                /\ output_after = Top.output
                /\ get_value(Tail(rule.destinationField), records'[ri], output_after)
                     = Written
          /\ ( /\ rule.type \in {"assign", "constant"}
               /\ Head(rule.destinationField) # SRC
               /\ Satisfied = Ok(TRUE) ) =>
                /\ records' = records
                /\ Len(stack') = Len(stack)
                /\ output_after = Put(Top.output, rule.destinationField, Written) ]_vars

\* source!x was written and then read: the caller's record has x, the
\* returned row has y from it and no x
Wit_C9_BackWriteThenRead ==
  /\ pc = "done"
  /\ rules = <<Constant(NoFilterText, <<SRC>> \o X, IntV(1)),
               Assign(NoFilterText, X, Y)>>
  /\ records0[1] = EmptyRow
  /\ records[1] = Put(EmptyRow, X, IntV(1))
  /\ result[1] = Put(EmptyRow, Y, IntV(1))

\* C10: run returns, in the order of the input, the run_one outputs that hold
\* at least one value other than null; rows that are empty or all null are
\* dropped without an error, so the result is never longer than the input.
Thm_C10_RunDropsEmptyRows ==
  pc = "done" =>
    LET outputs == [i \in 1..Len(records0) |->
                      RunRules(rules, 1, Started(records0[i])).output]
    IN  /\ result = SelectSeq(outputs, LAMBDA o : \E k \in DOMAIN o : o[k] # Null)
        /\ Len(result) <= Len(records)
        /\ err = ""

\* the first record's row holds only a null and was dropped, the second
\* record's row is the whole result
Wit_C10_NullRowDropped ==
  /\ pc = "done"
  /\ Len(transformed) >= 2
  /\ DOMAIN transformed[1] # {}
  /\ \A k \in DOMAIN transformed[1] : transformed[1][k] = Null
  /\ result = <<transformed[2]>>

\* C14: a delete rule of run_one whose filter holds removes the destination
\* field from the output row when it is there, all other fields staying as
\* they were, and raises a fatal error when it is not there.
Thm_C14_DeleteRemovesOrRaises ==
  [][ (InRule /\ rule.type = "delete" /\ Satisfied = Ok(TRUE)) =>
      IF rule.destinationField \in DOMAIN Top.output
      THEN /\ pc' = "run" /\ err' = ""
           /\ records' = records
           /\ Len(stack') = Len(stack)
           /\ DOMAIN stack'[Len(stack)].output
                = (DOMAIN Top.output) \ {rule.destinationField}
           /\ \A k \in DOMAIN stack'[Len(stack)].output :
                 stack'[Len(stack)].output[k] = Top.output[k]
      ELSE pc' = "failed" /\ err' = "KeyError" ]_vars

\* a subprogram wrote y and z, and the delete of y left z alone
Wit_C14_DeletedOneField ==
  /\ pc = "run" /\ Len(stack) = 1 /\ Top.idx = 3
  /\ rules[1].type = "subprogram"
  /\ rules[2] = Delete(NoFilterText, Y)
  /\ Top.output = Put(EmptyRow, Z, IntV(1))

\* C17: a regex-extract rule of run_one whose source field is missing from
\* the record, or there with a null value, sets every destination field to
\* null, whatever the regex is, and raises nothing.
Cex_C17_NullSourceExtractsNulls ==
  [][ (/\ InRule /\ rule.type = "regex-extract" /\ Satisfied = Ok(TRUE)
       /\ get_value(rule.sourceField, records[ri], Top.output) = Null) =>
      /\ pc' = "run" /\ err' = ""
      /\ \A i \in 1..Len(rule.destinationFields) :
            /\ rule.destinationFields[i] \in DOMAIN stack'[Len(stack)].output
            /\ stack'[Len(stack)].output[rule.destinationFields[i]] = Null ]_vars

\* the text form of a value: empty for a missing or null one, str() otherwise
TextForm(value) == IF value = Null THEN <<>> ELSE PyStr(value, FALSE)

RECURSIVE Substituted(_, _)
\* the template with every `{i}` replaced by texts[i + 1], in one pass from
\* the left: the inserted text is not looked at again
Substituted(template, texts) ==
  IF template = <<>> THEN <<>>
  ELSE IF \E i \in 1..Len(texts) :
            SubSeq(template, 1, 3) = <<"{">> \o IntText(i - 1) \o <<"}">>
  THEN texts[1 + DigitVal(template[2])]
         \o Substituted(SubSeq(template, 4, Len(template)), texts)
  ELSE <<Head(template)>> \o Substituted(Tail(template), texts)

\* C18: an interpolate rule of run_one writes the template with every `{i}`
\* replaced by the text form of the i-th source field: empty for a missing or
\* null field, str() for every other value, 0 and false included; the text
\* put in for one placeholder is not scanned for further placeholders.
Cex_C18_InterpolateSubstitutesTextForms ==
  [][ (InRule /\ rule.type = "interpolate" /\ Satisfied = Ok(TRUE)) =>
      /\ pc' = "run" /\ err' = ""
      /\ Get(stack'[Len(stack)].output, rule.destinationField)
           = StrV(Substituted(rule.output,
                    [i \in 1..Len(rule.sourceFields) |->
                       TextForm(get_value(rule.sourceFields[i], records[ri],
                                          Top.output))])) ]_vars

\* C19: a concatenate rule of run_one writes the text forms of the source
\* fields in list order, joined by the separator of the rule when it has one
\* (an empty one included) and by `,` when it has none; a missing or null
\* field gives empty text, every other value, 0 included, its str().
Cex_C19_ConcatenateJoinsTextForms ==
  [][ (InRule /\ rule.type = "concatenate" /\ Satisfied = Ok(TRUE)) =>
      /\ pc' = "run" /\ err' = ""
      /\ Get(stack'[Len(stack)].output, rule.destinationField)
           = StrV(Join([i \in 1..Len(rule.sourceFields) |->
                          TextForm(get_value(rule.sourceFields[i], records[ri],
                                             Top.output))],
                       IF rule.separator = Null THEN <<",">>
                       ELSE rule.separator.s)) ]_vars

\* control token a may stand before control token b: numbers first and by
\* value, other tokens in the lexical order of their text
MayPrecede(a, b) ==
  LET number(s) == IF IntOfText(s).ok THEN IntOfText(s) ELSE FloatOfText(s)
  IN  IF number(a).ok /\ number(b).ok THEN number(a).num <= number(b).num
      ELSE IF number(a).ok THEN TRUE
      ELSE IF number(b).ok THEN FALSE
      ELSE ~TextLess(b, a)

\* C20: the bucket list a nest rule assigns to its destination field is
\* sorted ascending by control token: tokens that parse as numbers come first,
\* ordered by value (2 before 10), the others are ordered lexically by the
\* token text alone, whatever else the buckets hold.
Cex_C20_BucketsSortedByControl ==
  [][ (InRule /\ rule.type = "nest" /\ Satisfied = Ok(TRUE)) =>
      /\ pc' = "run" /\ err' = ""
      /\ LET buckets == Get(stack'[Len(stack)].output, rule.destinationField).items
         IN  \A i, j \in 1..Len(buckets) :
               i < j => MayPrecede(PairGet(buckets[i].pairs, CONTROL).s,
                                   PairGet(buckets[j].pairs, CONTROL).s) ]_vars

\* the control tokens the subfield regexes of r capture from the keys of record
Tokens(r, record) ==
  {ReSearch(r.subfields[i].sourceRegex, key).groups[1] :
     <<i, key>> \in {m \in (1..Len(r.subfields)) \X (DOMAIN record) :
                       ReSearch(r.subfields[m[1]].sourceRegex, m[2]).found}}

RECURSIVE AllRules(_)
\* the rules of a rule list and of its subprograms, at any depth
AllRules(rs) ==
  {rs[i] : i \in 1..Len(rs)}
    \cup UNION {AllRules(rs[i].rules) : i \in {j \in 1..Len(rs) : rs[j].type = "subprogram"}}

\* the field names a rule names as its source
Named(r) ==
  IF r.type \in {"assign", "ignore", "transform", "regex-extract"} THEN {r.sourceField}
  ELSE IF r.type \in {"interpolate", "coalesce", "concatenate", "array"}
  THEN {r.sourceFields[j] : j \in 1..Len(r.sourceFields)}
  ELSE {}

RECURSIVE Unfiltered(_)
\* the rule list with no rule filtered, at any depth
Unfiltered(rs) ==
  [i \in 1..Len(rs) |->
     IF rs[i].type = "subprogram"
     THEN [rs[i] EXCEPT !.filter = NoFilterText, !.rules = Unfiltered(@)]
     ELSE [rs[i] EXCEPT !.filter = NoFilterText]]

\* the record without the fields outside S
Only(record, S) == [k \in (DOMAIN record) \cap S |-> record[k]]

Thm_C24_EveryDestinationIsWritten ==
  [][ (InRule /\ rule.type = "regex-extract" /\ Satisfied = Ok(TRUE)) =>
      /\ pc' = "run" /\ err' = ""
      /\ LET value == get_value(rule.sourceField, records[ri], Top.output)
             after == stack'[Len(stack)].output
             dests == {rule.destinationFields[i] : i \in 1..Len(rule.destinationFields)}
             written(match) ==
               \A i \in 1..Len(rule.destinationFields) :
                  /\ rule.destinationFields[i] \in DOMAIN after
                  /\ after[rule.destinationFields[i]]
                       = IF match.found /\ i <= Len(match.groups)
                         THEN StrV(match.groups[i]) ELSE Null
         IN  /\ written(ReSearch(rule.regex, PyStr(value, FALSE)))
             /\ DOMAIN after = (DOMAIN Top.output) \cup dests
             /\ \A k \in (DOMAIN Top.output) \ dests : after[k] = Top.output[k] ]_vars

\* `(.)(.*)` on "Sa" into y, z and w: y is "S", z is "a", w is null, and the
\* v written before is still there
Wit_C24_ThirdFieldNull ==
  /\ pc = "run" /\ Len(stack) = 1 /\ Top.idx = 3
  /\ rules[2].type = "regex-extract"
  /\ records[ri] = RowWith(X, StrV(<<"S", "a">>))
  /\ Top.output = Put(Put(Put(Put(EmptyRow, <<"v">>, IntV(1)), Y, StrV(<<"S">>)),
                          Z, StrV(<<"a">>)), <<"w">>, Null)

RECURSIVE Depth(_)
\* how deep subprogram rules are nested in a rule list: 0 without any
Depth(rs) ==
  LET inner == {1 + Depth(rs[i].rules) : i \in {j \in 1..Len(rs) : rs[j].type = "subprogram"}}
  IN  IF inner = {} THEN 0 ELSE CHOOSE d \in inner : \A e \in inner : e <= d

RECURSIVE Size(_, _)
\* the number of rules of a list from rule i on, nested rules included
Size(rs, i) ==
  IF i > Len(rs) THEN 0
  ELSE 1 + (IF rs[i].type = "subprogram" THEN Size(rs[i].rules, 1) ELSE 0)
         + Size(rs, i + 1)

RECURSIVE Unvisited(_, _)
\* the rules the run_one calls from frame k on have not yet come to: those
\* from its rule on in the innermost call, those behind the subprogram rule
\* in a calling one
Unvisited(st, k) ==
  IF k > Len(st) THEN 0
  ELSE Size(st[k].rules, IF k = Len(st) THEN st[k].idx ELSE st[k].idx + 1)
         + Unvisited(st, k + 1)

\* the calls below the innermost one stay as they are
SameCallers(n) == \A k \in 1..n : stack'[k] = stack[k]

\* C30: run_one terminates.  A step of a run_one in progress either comes to
\* the next rule of the innermost list (the rule is run or skipped, once, in
\* list order), or enters the list of the subprogram rule at hand at its
\* first rule, or returns from a finished list to the rule behind the
\* subprogram rule, or ends the call; the rules not yet come to get fewer with
\* every rule and never more, and a return shortens the chain of calls, so
\* no more rules are executed than the program has.  The chain of calls
\* follows the nesting of subprogram rules and is no deeper.  Not being
\* suspended, run() comes to its end or to an exception.
Thm_C30_RunOneTerminates ==
  /\ [][ (pc = "run" /\ stack # <<>>) =>
         \/ stack' = <<>>
         \/ /\ Len(stack') = Len(stack) /\ SameCallers(Len(stack) - 1)
            /\ InRule
            /\ stack'[Len(stack)].rules = Top.rules
            /\ stack'[Len(stack)].idx = Top.idx + 1
            /\ Unvisited(stack', 1) < Unvisited(stack, 1)
         \/ /\ Len(stack') = Len(stack) + 1 /\ SameCallers(Len(stack))
            /\ InRule /\ rule.type = "subprogram"
            /\ stack'[Len(stack')].rules = rule.rules
            /\ stack'[Len(stack')].idx = 1
            /\ Unvisited(stack', 1) = Unvisited(stack, 1) - 1
         \/ /\ Len(stack') = Len(stack) - 1 /\ SameCallers(Len(stack) - 2)
            /\ Top.idx = Len(Top.rules) + 1
            /\ stack'[Len(stack')].rules = stack[Len(stack')].rules
            /\ stack'[Len(stack')].idx = stack[Len(stack')].idx + 1
            /\ Unvisited(stack', 1) = Unvisited(stack, 1) ]_vars
  /\ [](pc = "run" =>
          /\ Len(stack) <= 1 + Depth(rules)
          /\ Unvisited(stack, 1) <= Size(rules, 1)
          /\ stack # <<>> => stack[1].rules = rules
          /\ \A k \in 1..Len(stack) :
               /\ stack[k].idx \in 1..(Len(stack[k].rules) + 1)
               /\ k < Len(stack) =>
                    /\ stack[k].idx <= Len(stack[k].rules)
                    /\ stack[k].rules[stack[k].idx].type = "subprogram"
                    /\ stack[k + 1].rules = stack[k].rules[stack[k].idx].rules)
  /\ (pc = "run") ~> (pc \in {"done", "failed"})

\* run_one is two calls deep, in the list of a subprogram rule that is itself
\* in the list of a subprogram rule, and has come past the first rule there
Wit_C30_TwoSubprogramsDeep ==
  /\ pc = "run" /\ Len(stack) = 3
  /\ Depth(rules) = 2
  /\ Top.idx = 2

(* ======================================================================= *)
(* Batch interpreter (MappingProgram.run_df)                                *)
(* ======================================================================= *)

\* pd.Series(True, index=records.index)
AllRows(df) == [i \in 1..Len(df) |-> BoolV(TRUE)]

\* the positions a boolean series selects
Selected(idxs) == {i \in 1..Len(idxs) : idxs[i] = BoolV(TRUE)}

\* a scalar, as a series on the index of df
Broadcast(value, df) == [i \in 1..Len(df) |-> value]

\* run_df.get_value: the column of the output batch or of the records, a
\* series of None when there is no such column; the cells at the positions
\* outside idxs are not part of the series   (mapping_program.py:113-149)
get_value_df(field_name, recs, out) ==
  IF StartsWith(field_name, DEST)
  THEN Column(out, Replace(field_name, DEST))
  ELSE Column(recs, field_name)

\* df.loc[idxs, c] = values: the column exists afterwards for every row, the
\* selected rows take the cell of values with their own index label
LocSet(df, idxs, c, values) ==
  [i \in 1..Len(df) |->
     Put(df[i], c, IF i \in Selected(idxs) THEN values[i] ELSE Get(df[i], c))]

\* run_df.set_value   (mapping_program.py:151-167)
set_value_df(field_name, values, idxs, recs, out) ==
  IF StartsWith(field_name, SRC)
  THEN [records |-> LocSet(recs, idxs, Replace(field_name, SRC), values),
        transformed |-> out]
  ELSE [records |-> recs, transformed |-> LocSet(out, idxs, field_name, values)]

\* pd.Series([list(s) for s in zip(*serieses)]): one list for each selected
\* row, in order, on a new index 0, 1, ...; on assignment the series is
\* aligned with the index of the batch, so that the row at position p is
\* given the p-th list, and NaN when there are fewer lists than p
\* (mapping_program.py:201-204)
Arrayed(r, idxs, recs, out) ==
  LET sel == Selected(idxs)
      nth(p) == CHOOSE i \in sel : Cardinality({j \in sel : j < i}) = p - 1
  IN  [p \in 1..Len(recs) |->
         IF p <= Cardinality(sel)
         THEN ListV([f \in 1..Len(r.sourceFields) |->
                       get_value_df(r.sourceFields[f], recs, out)[nth(p)]])
         ELSE Null]

\* Series.replace({old: new}) on a series kept as a function of its labels
SeriesReplace(series, old, new) ==
  [i \in DOMAIN series |-> IF series[i] = old THEN new ELSE series[i]]

\* Series.dropna(): the labels whose cell is NaN leave the index
DropNa(series) == [i \in {j \in DOMAIN series : series[j] # Null} |-> series[i]]

\* the series of the absent column without its dropna(): one cell for every
\* row of the batch
none_series_undropped(idxs) ==
  SeriesReplace(SeriesReplace(idxs, BoolV(FALSE), Null), BoolV(TRUE), Null)
\* idxs.reindex(records.index).replace({False: np.nan}).dropna()
\*     .replace({True: None}); idxs is on the index of records already
\* (mapping_program.py:131-136, 144-149)
none_series(idxs) ==
  SeriesReplace(DropNa(SeriesReplace(idxs, BoolV(FALSE), Null)), BoolV(TRUE), Null)

\* run_df.get_value(field_name, idxs) as the series it is: its labels are the
\* positions of the selected rows   (mapping_program.py:113-149)
get_value_idxs(field_name, idxs, recs, out) ==
  LET batch == IF StartsWith(field_name, DEST) THEN out ELSE recs
      name == IF StartsWith(field_name, DEST) THEN Replace(field_name, DEST)
              ELSE field_name
  IN  IF name \in Columns(batch)
      THEN [i \in Selected(idxs) |-> Get(batch[i], name)]
      ELSE none_series(idxs)

\* a column of numbers with a hole in it is a column of floats
IsFloatDtype(series) ==
  IsNumericDtype(series) /\ \E i \in 1..Len(series) : series[i].t = "null"

\* as_string(get_value(field_name, idxs)): s.where(pd.notna(s), "").astype(str);
\* a number of a float column is written with its decimal point
\* (mapping_program.py:30-31)
as_string(field_name, idxs, recs, out) ==
  LET s == get_value_idxs(field_name, idxs, recs, out)
      float == IsFloatDtype(get_value_df(field_name, recs, out))
  IN  [i \in DOMAIN s |->
         IF s[i] = Null THEN <<>>
         ELSE IF float THEN IntText(s[i].n) \o <<".", "0">>
         ELSE PyStr(s[i], FALSE)]

\* concatenate in run_df   (mapping_program.py:192-199)
concatenate_df(r, idxs, recs, out) ==
  LET separator == IF Falsy(r.separator) THEN <<",">> ELSE r.separator.s
      values == [i \in Selected(idxs) |->
                   StrV(Join([k \in 1..Len(r.sourceFields) |->
                                as_string(r.sourceFields[k], idxs, recs, out)[i]],
                             separator))]
  IN  set_value_df(r.destinationField, values, idxs, recs, out)

RECURSIVE ReplacePairs(_, _, _)
\* for pair in rule.values: values = values.str.replace(pair.find, pair.replace)
\* on one cell: a cell that is not str becomes NaN   (mapping_program.py:182-183)
ReplacePairs(pairs, i, cell) ==
  IF i > Len(pairs) THEN cell
  ELSE IF cell.t # "str" THEN Null
  ELSE ReplacePairs(pairs, i + 1, StrV(StrReplace(cell.s, pairs[i].find, pairs[i].replace)))

\* find-replace in run_df; the .str accessor exists only on object columns
\* (mapping_program.py:180-184)
find_replace_df(r, idxs, recs, out) ==
  LET values == get_value_df(<<DEST>> \o r.destinationField, recs, out)
  IN  set_value_df(r.destinationField,
                   [i \in 1..Len(values) |-> ReplacePairs(r.values, 1, values[i])],
                   idxs, recs, out)

RECURSIVE CombineFirst(_, _, _, _, _)
\* coalesced.combine_first(get_value(source_field).replace(np.nan, defaultValue))
\* over sourceFields[1:]   (mapping_program.py:307-310)
CombineFirst(r, k, coalesced, recs, out) ==
  IF k > Len(r.sourceFields) THEN coalesced
  ELSE LET other == get_value_df(r.sourceFields[k], recs, out)
       IN  CombineFirst(r, k + 1,
             [i \in 1..Len(coalesced) |->
                IF coalesced[i] # Null THEN coalesced[i]
                ELSE IF other[i] # Null THEN other[i]
                ELSE r.defaultValue],
             recs, out)

\* coalesce in run_df   (mapping_program.py:303-312)
coalesce_df(r, idxs, recs, out) ==
  set_value_df(r.destinationField,
               CombineFirst(r, 2, get_value_df(r.sourceFields[1], recs, out), recs, out),
               idxs, recs, out)

\* delete in run_df as it would be if it cleared the rows of the mask only
delete_masked(r, idxs, out) ==
  [i \in 1..Len(out) |->
     IF i \in Selected(idxs) THEN Del(out[i], r.destinationField) ELSE out[i]]

\* del transformed[rule.destinationField]   (mapping_program.py:296)
delete_df(r, idxs, out) == [i \in 1..Len(out) |-> Del(out[i], r.destinationField)]

\* the call run_df(records, transformed, start_idxs)
DfFrame(rs, fs, start_idxs) ==
  [rules |-> rs, filters |-> fs, idx |-> 1, start_idxs |-> start_idxs]

(* ------------------------- the batches drawn ---------------------------- *)

W == <<"w">>
F_w1 == Comparison(W, "eq", <<"1">>)

DfRulePool ==
  { Assign(NoFilterText, X, Y),
    Constant(F_x1, Y, IntV(1)),
    Array(F_x1, <<X>>, Z),
    Delete(F_x1, Y),
    Subprogram(F_x1, <<Constant(NoFilterText, Z, IntV(1))>>),
    Subprogram(F_x1, <<Subprogram(F_w1, <<Assign(NoFilterText, W, Z)>>)>>) }

DfPrograms == SeqsUpTo(DfRulePool, MaxRules) \ {<<>>}

DfRows == {[k \in {X, W} |-> IF k = X THEN x ELSE w] : x \in {IntV(1), IntV(2)},
                                                     w \in {IntV(1), IntV(2)}}

\* text, and one number, for find-replace
DfTextRows ==
  {RowWith(X, v) : v \in {StrV(<<"a">>), StrV(<<"b">>), StrV(<<"a", "b">>), IntV(1)}}

\* the first j source fields are null, the others hold their own number
DfFieldRows ==
  {[f \in {FieldName(i) : i \in 1..MaxFields} |->
      IF DigitVal(f[2]) <= j THEN Null ELSE IntV(DigitVal(f[2]))] : j \in 0..MaxFields}

\* concatenate and assign reading x, which the batch has, y, which it has not,
\* and the output column z, which is not there yet
DfAbsentPrograms ==
  LET names == {X, Y, <<DEST>> \o Z}
      lists == {<<f>> : f \in names} \cup {<<f, g>> : f \in names, g \in names}
  IN  {<<Concatenate(ft, fs, Z, sep)>> :
         ft \in {NoFilterText, F_x1}, fs \in lists, sep \in {Null, StrV(<<"-">>)}}
        \cup {<<Assign(ft, f, Z)>> : ft \in {NoFilterText, F_x1}, f \in names}
DfAbsentRows == {RowWith(X, v) : v \in {IntV(1), IntV(2), StrV(<<"a">>), Null}}

\* the programs and the batches run_df() is given
DrawnDf ==
  (DfPrograms \X [1..NRows -> DfRows])
    \cup (FindReplacePrograms \X [1..NRows -> DfTextRows])
    \cup (CoalescePrograms \X [1..NRows -> DfFieldRows])
    \cup (DfAbsentPrograms \X [1..NRows -> DfAbsentRows])

(* --------------------------- the batch machine -------------------------- *)

InitDf ==
  /\ \E d \in DrawnDf : rules = d[1] /\ records = d[2]
  /\ records0 = records
  /\ filters = <<>>
  /\ pc = "new"
  /\ transformed = <<>>
  /\ result = <<>>
  /\ stack = <<>>
  /\ fields = <<>>
  /\ err = ""
  /\ NoQuery
  /\ NoGroups

\* run_df(records): an empty output batch on the index of the records, every
\* row active   (mapping_program.py:100-111)
RunDf ==
  /\ pc = "ready"
  /\ transformed' = [i \in 1..Len(records) |-> EmptyRow]
  /\ stack' = <<DfFrame(rules, filters, AllRows(records))>>
  /\ pc' = "run_df"
  /\ UNCHANGED <<rules, filters, records, records0, result, err, fields, fvars, gvars>>

InDfRule == pc = "run_df" /\ stack # <<>> /\ Top.idx <= Len(Top.rules)

\* idxs = filter.satisfies_df(records, transformed) & start_idxs, or
\* start_idxs when the rule has no filter   (mapping_program.py:171-174)
Idxs ==
  LET masked(s) ==
        IF s.exc # "" THEN s ELSE SeriesOk(SeriesAnd(s.vals, Top.start_idxs))
  IN  IF Top.filters[Top.idx].present
      THEN masked(satisfies_df(Top.filters[Top.idx].root, records, transformed))
      ELSE SeriesOk(Top.start_idxs)

\* the innermost run_df goes on to its next rule
DfAdvance == [stack EXCEPT ![Len(stack)] = [@ EXCEPT !.idx = @ + 1]]

\* the body of the rule at hand left the batches w
DfRan(w) ==
  /\ records' = w.records
  /\ transformed' = w.transformed
  /\ stack' = DfAdvance

\* assign   (mapping_program.py:176-178)
DfAssign ==
  /\ InDfRule /\ Idxs.exc = ""
  /\ rule.type = "assign"
  /\ DfRan(set_value_df(rule.destinationField,
                        get_value_df(rule.sourceField, records, transformed),
                        Idxs.vals, records, transformed))
  /\ UNCHANGED <<rules, filters, pc, records0, result, err, fields, fvars, gvars>>

\* concatenate   (mapping_program.py:192-199)
DfConcatenate ==
  /\ InDfRule /\ Idxs.exc = ""
  /\ rule.type = "concatenate"
  /\ DfRan(concatenate_df(rule, Idxs.vals, records, transformed))
  /\ UNCHANGED <<rules, filters, pc, records0, result, err, fields, fvars, gvars>>

\* constant   (mapping_program.py:189-190)
DfConstant ==
  /\ InDfRule /\ Idxs.exc = ""
  /\ rule.type = "constant"
  /\ DfRan(set_value_df(rule.destinationField, Broadcast(rule.value, records),
                        Idxs.vals, records, transformed))
  /\ UNCHANGED <<rules, filters, pc, records0, result, err, fields, fvars, gvars>>

\* array   (mapping_program.py:201-204)
DfArray ==
  /\ InDfRule /\ Idxs.exc = ""
  /\ rule.type = "array"
  /\ DfRan(set_value_df(rule.destinationField,
                        Arrayed(rule, Idxs.vals, records, transformed),
                        Idxs.vals, records, transformed))
  /\ UNCHANGED <<rules, filters, pc, records0, result, err, fields, fvars, gvars>>

\* the column find-replace reads has no .str accessor
NoStrAccessor ==
  IsNumericDtype(get_value_df(<<DEST>> \o rule.destinationField, records, transformed))

\* find-replace   (mapping_program.py:180-184)
DfFindReplace ==
  /\ InDfRule /\ Idxs.exc = ""
  /\ rule.type = "find-replace"
  /\ ~NoStrAccessor
  /\ DfRan(find_replace_df(rule, Idxs.vals, records, transformed))
  /\ UNCHANGED <<rules, filters, pc, records0, result, err, fields, fvars, gvars>>

\* coalesce   (mapping_program.py:303-312)
DfCoalesce ==
  /\ InDfRule /\ Idxs.exc = ""
  /\ rule.type = "coalesce"
  /\ DfRan(coalesce_df(rule, Idxs.vals, records, transformed))
  /\ UNCHANGED <<rules, filters, pc, records0, result, err, fields, fvars, gvars>>

\* delete of a column the output batch has   (mapping_program.py:289-296)
DfDelete ==
  /\ InDfRule /\ Idxs.exc = ""
  /\ rule.type = "delete"
  /\ rule.destinationField \in Columns(transformed)
  /\ transformed' = delete_df(rule, Idxs.vals, transformed)
  /\ stack' = DfAdvance
  /\ UNCHANGED <<rules, filters, pc, records, records0, result, err, fields, fvars, gvars>>

\* subprogram: MappingProgram(rule.rules).run_df(records, transformed, idxs)
\* (mapping_program.py:298-301)
DfSubprogram ==
  /\ InDfRule /\ Idxs.exc = ""
  /\ rule.type = "subprogram"
  /\ FiltersParse(rule.rules)
  /\ stack' = Append(stack, DfFrame(rule.rules, ParsedFilters(rule.rules), Idxs.vals))
  /\ UNCHANGED <<rules, filters, pc, records, records0, transformed, result, err, fields, fvars, gvars>>

\* the exception the rule at hand raises in run_df, "" if none
DfRaised ==
  IF Idxs.exc # "" THEN Idxs.exc
  ELSE IF rule.type = "delete" /\ rule.destinationField \notin Columns(transformed)
  THEN "KeyError"
  ELSE IF rule.type = "subprogram" /\ ~FiltersParse(rule.rules)
  THEN "UnexpectedInput"
  ELSE IF rule.type = "find-replace" /\ NoStrAccessor
  THEN "AttributeError"
  ELSE ""

DfRaises ==
  /\ InDfRule
  /\ DfRaised # ""
  /\ err' = DfRaised
  /\ pc' = "failed"
  /\ stack' = <<>>
  /\ UNCHANGED <<rules, filters, records, records0, transformed, result, fields, fvars, gvars>>

\* return transformed   (mapping_program.py:341): to the caller of run_df, or
\* to the subprogram rule of the calling run_df
DfReturn ==
  /\ pc = "run_df"
  /\ stack # <<>>
  /\ Top.idx > Len(Top.rules)
  /\ IF Len(stack) = 1
     THEN /\ result' = transformed
          /\ pc' = "done"
          /\ stack' = <<>>
     ELSE /\ result' = result
          /\ pc' = pc
          /\ stack' = [SubSeq(stack, 1, Len(stack) - 1) EXCEPT ![Len(stack) - 1] =
                         [@ EXCEPT !.idx = @ + 1]]
  /\ UNCHANGED <<rules, filters, records, records0, transformed, err, fields, fvars, gvars>>

NextDf ==
  \/ Construct \/ RunDf \/ DfAssign \/ DfConstant \/ DfArray \/ DfFindReplace
  \/ DfConcatenate
  \/ DfCoalesce \/ DfDelete \/ DfSubprogram \/ DfRaises \/ DfReturn

SpecDf == InitDf /\ [][NextDf]_vars

(* ------------------ properties of the batch interpreter ------------------ *)

\* the rules, nested ones included, are of the given types
RECURSIVE OfTypes(_, _)
OfTypes(rs, types) ==
  \A i \in 1..Len(rs) :
     /\ rs[i].type \in types
     /\ rs[i].type = "subprogram" => OfTypes(rs[i].rules, types)

\* two rows hold the same cells, a missing cell being a null one
SameCells(a, b) == \A k \in (DOMAIN a) \cup (DOMAIN b) : Get(a, k) = Get(b, k)

\* C11: for programs of assign, constant, array and subprogram rules, with
\* or without filters, row i of run_df(batch) holds the cells run_one gives
\* for record i, whenever both finish without an error.
Cex_C11_BatchEqualsSingle ==
  (pc = "done" /\ OfTypes(rules, {"assign", "constant", "array", "subprogram"})) =>
    \A i \in 1..Len(result) :
       LET one == RunRules(rules, 1, Started(records0[i]))
       IN  one.exc = "" => SameCells(result[i], one.output)

\* the filters of the enclosing subprogram rules and of the rule at hand
EnclosingFilters ==
  {stack[k].rules[stack[k].idx].filter : k \in 1..Len(stack)} \ {NoFilterText}

\* row i satisfies them all.  The filters drawn read fields of the records,
\* which no rule drawn for run_df changes.
InMask(i) ==
  \A f \in EnclosingFilters :
     satisfies(from_query(f).root, records0[i], EmptyRow) = Ok(TRUE)

\* the cell an assign, constant or array rule computes from one row
Computed(r, record, output) ==
  CASE r.type = "assign" -> get_value(r.sourceField, record, output)
    [] r.type = "constant" -> r.value
    [] r.type = "array" ->
         ListV([f \in 1..Len(r.sourceFields) |->
                  get_value(r.sourceFields[f], record, output)])

\* C12: a rule of run_df other than delete leaves the cells of the rows
\* outside its effective mask, its own filter and the filters of all the
\* enclosing subprograms, as they were; a row inside the mask receives the
\* value computed from that same row.
Cex_C12_WritesOnlyInsideTheMask ==
  [][ (InDfRule /\ rule.type \notin {"delete", "subprogram"} /\ pc' = "run_df") =>
      \A i \in 1..Len(records) :
         IF InMask(i)
         THEN rule.type \in {"assign", "constant", "array"} =>
                Get(transformed'[i], rule.destinationField)
                  = Computed(rule, records[i], transformed[i])
         ELSE SameCells(transformed'[i], transformed[i]) ]_vars

\* the rule's filter holds on one record and its output row
Holds(r, record, output) ==
  \/ r.filter = NoFilterText
  \/ satisfies(from_query(r.filter).root, record, output) = Ok(TRUE)

\* C13: in run_df a delete rule removes the column from every row of the
\* batch, whatever rows its filter and the active mask select, none at all
\* included; run_one on the same row removes the field only when the rule's
\* filter holds on it.
Thm_C13_BatchDeleteIgnoresTheMask ==
  [][ (InDfRule /\ rule.type = "delete" /\ pc' = "run_df") =>
      \A i \in 1..Len(records) :
         /\ rule.destinationField \notin DOMAIN transformed'[i]
         /\ \A k \in (DOMAIN transformed[i]) \ {rule.destinationField} :
               Get(transformed'[i], k) = transformed[i][k]
         /\ LET one == RunRule(rule, [record |-> records[i],
                                      output |-> transformed[i], exc |-> ""])
            IN  IF Holds(rule, records[i], transformed[i])
                THEN one.exc = "" => rule.destinationField \notin DOMAIN one.output
                ELSE one.exc = "" /\ one.output = transformed[i] ]_vars

\* assign x to y, then delete y where `x eq 1`: no row has x = 1, and the
\* column y is gone
Wit_C13_DeletedWithEmptyMask ==
  /\ pc = "run_df" /\ Len(stack) = 1 /\ Top.idx = 3
  /\ rules = <<Assign(NoFilterText, X, Y), Delete(F_x1, Y)>>
  /\ \A i \in 1..Len(records) : records[i][X] = IntV(2)
  /\ Columns(transformed) = {}

RECURSIVE FirstExact(_, _)
\* the replace of the first pair whose find is the value, else the value
FirstExact(pairs, value) ==
  IF pairs = <<>> THEN value
  ELSE IF value = StrV(Head(pairs).find) THEN StrV(Head(pairs).replace)
  ELSE FirstExact(Tail(pairs), value)

\* C15: find-replace overwrites the value at destinationField with the
\* replace of the first pair whose find equals it exactly, and leaves every
\* other value as it is, in run_one and row for row in run_df.
Cex_C15_FirstExactPair ==
  [][ (/\ \/ InRule /\ pc' = "run"
          \/ InDfRule /\ pc' = "run_df"
       /\ rule.type = "find-replace") =>
      IF pc = "run"
      THEN Get(stack'[Len(stack)].output, rule.destinationField)
             = FirstExact(rule.values, Get(Top.output, rule.destinationField))
      ELSE \A i \in 1..Len(records) :
             Get(transformed'[i], rule.destinationField)
               = FirstExact(rule.values, Get(transformed[i], rule.destinationField)) ]_vars

RECURSIVE FirstNonNull(_, _)
\* the first of the values that is not null, else the given one
FirstNonNull(values, otherwise) ==
  IF values = <<>> THEN otherwise
  ELSE IF Head(values) # Null THEN Head(values)
  ELSE FirstNonNull(Tail(values), otherwise)

\* what coalesce is to leave at the destination of one row
Coalesced(r, record, output) ==
  FirstNonNull([k \in 1..Len(r.sourceFields) |->
                  get_value(r.sourceFields[k], record, output)],
               IF r.defaultValue # Null THEN r.defaultValue
               ELSE Get(output, r.destinationField))

\* C16: coalesce sets the destination to the first non-null value among the
\* source fields in list order, for one, two, three or more fields; when all
\* are null or missing it uses defaultValue if there is one, and otherwise
\* leaves the destination as it was; in run_one and row for row in run_df.
Cex_C16_FirstNonNullElseDefault ==
  [][ (/\ \/ InRule /\ pc' = "run"
          \/ InDfRule /\ pc' = "run_df"
       /\ rule.type = "coalesce") =>
      IF pc = "run"
      THEN Get(stack'[Len(stack)].output, rule.destinationField)
             = Coalesced(rule, records[ri], Top.output)
      ELSE \A i \in 1..Len(records) :
             Get(transformed'[i], rule.destinationField)
               = Coalesced(rule, records[i], transformed[i]) ]_vars

DfState(recs, out) == [records |-> recs, transformed |-> out, exc |-> ""]

RECURSIVE RunDfRules(_, _, _, _)
\* one pass of the loop of run_df on the batches of st   (mapping_program.py:169-339)
RunDfRule(r, start_idxs, st) ==
  LET recs == st.records
      out == st.transformed
      masked(s) == IF s.exc # "" THEN s ELSE SeriesOk(SeriesAnd(s.vals, start_idxs))
      ran(w) == DfState(w.records, w.transformed)
      raises(e) == [st EXCEPT !.exc = e]
      body(idxs) ==
        CASE r.type = "assign" ->
               ran(set_value_df(r.destinationField,
                                get_value_df(r.sourceField, recs, out), idxs, recs, out))
          [] r.type = "constant" ->
               ran(set_value_df(r.destinationField, Broadcast(r.value, recs),
                                idxs, recs, out))
          [] r.type = "array" ->
               ran(set_value_df(r.destinationField, Arrayed(r, idxs, recs, out),
                                idxs, recs, out))
          [] r.type = "concatenate" -> ran(concatenate_df(r, idxs, recs, out))
          [] r.type = "coalesce" -> ran(coalesce_df(r, idxs, recs, out))
          [] r.type = "find-replace" ->
               IF IsNumericDtype(get_value_df(<<DEST>> \o r.destinationField, recs, out))
               THEN raises("AttributeError")
               ELSE ran(find_replace_df(r, idxs, recs, out))
          [] r.type = "delete" ->
               IF r.destinationField \notin Columns(out) THEN raises("KeyError")
               ELSE DfState(recs, delete_df(r, idxs, out))
          [] r.type = "subprogram" ->
               IF ~FiltersParse(r.rules) THEN raises("UnexpectedInput")
               ELSE RunDfRules(r.rules, 1, idxs, st)
      filtered(s) == IF s.exc # "" THEN raises(s.exc) ELSE body(s.vals)
  IN  IF r.filter = NoFilterText THEN body(start_idxs)
      ELSE filtered(masked(satisfies_df(from_query(r.filter).root, recs, out)))

\* run_df(records, transformed, start_idxs) from rule i on
RunDfRules(rs, i, start_idxs, st) ==
  IF i > Len(rs) \/ st.exc # "" THEN st
  ELSE RunDfRules(rs, i + 1, start_idxs, RunDfRule(rs[i], start_idxs, st))

\* run_df(records) on a batch of its own
RunDfOn(rs, recs) ==
  RunDfRules(rs, 1, AllRows(recs), DfState(recs, [i \in 1..Len(recs) |-> EmptyRow]))

\* C29: row i of run_df(batch) holds the cells that run_df gives for the
\* batch made of row i alone, whenever that run finishes without an error:
\* the output of a row does not depend on the other rows of its batch.
Cex_C29_RowOutputDependsOnItsRowOnly ==
  pc = "done" =>
    \A i \in 1..Len(result) :
       LET alone == RunDfOn(rules, <<records0[i]>>)
       IN  alone.exc = "" => SameCells(result[i], alone.transformed[1])

\* the column field_name is read from is not in its batch
Absent(field_name) ==
  IF StartsWith(field_name, DEST)
  THEN Replace(field_name, DEST) \notin Columns(transformed)
  ELSE field_name \notin Columns(records)

\* the fields the rule at hand reads
Read == IF rule.type = "assign" THEN {rule.sourceField}
        ELSE {rule.sourceFields[k] : k \in 1..Len(rule.sourceFields)}

Callers == {1, 2}

SharedRules ==
  { Assign(NoFilterText, X, Y),
    Assign(F_dy1, <<DEST>> \o Y, Z),
    Constant(F_x1, Y, IntV(1)),
    Constant(NoFilterText, <<SRC>> \o X, IntV(1)),
    Delete(NoFilterText, Y),
    Subprogram(F_x1, <<Constant(NoFilterText, Y, IntV(1)),
                       Assign(F_dy1, <<DEST>> \o Y, Z)>>) }

SharedPrograms == SeqsUpTo(SharedRules, MaxRules) \ {<<>>}

Idle(op) == [op |-> op, state |-> "idle", value |-> <<>>]

InitShared ==
  /\ rules \in SharedPrograms
  /\ records \in [Callers -> RecordPool]
  /\ records0 = records
  /\ transformed \in [Callers -> {Idle("run_one"), Idle("source_fields")}]
  /\ stack = [c \in Callers |-> <<>>]
  /\ filters = <<>>
  /\ pc = "new"
  /\ result = <<>>
  /\ fields = <<>>
  /\ err = ""
  /\ NoQuery
  /\ NoGroups

\* the record of a caller as it would be if all callers handed over one record
RecordOfFirst(c) == 1

\* run_one(record): every caller hands over a record of its own
RecordOf(c) == c

\* the innermost run_one call of caller c and the rule it is at
Inner(c) == stack[c][Len(stack[c])]
AtRule(c) ==
  /\ pc = "ready" /\ transformed[c].state = "running"
  /\ stack[c] # <<>> /\ Inner(c).idx <= Len(Inner(c).rules)
RuleOf(c) == Inner(c).rules[Inner(c).idx]

\* filter and not filter.satisfies(record, output)   (mapping_program.py:371-372)
SatisfiedOf(c) ==
  IF Inner(c).filters[Inner(c).idx].present
  THEN satisfies(Inner(c).filters[Inner(c).idx].root, records[RecordOf(c)],
                 Inner(c).output)
  ELSE Ok(TRUE)

\* the branch of run_one for a rule that is no subprogram
\* (mapping_program.py:375-487); st = [record, output, exc]
Branch(r, st) ==
  CASE r.type = "assign" ->
         Done(set_value(r.destinationField,
                        get_value(r.sourceField, st.record, st.output),
                        st.record, st.output))
    [] r.type = "constant" ->
         Done(set_value(r.destinationField, r.value, st.record, st.output))
    [] r.type = "delete" ->
         IF r.destinationField \in DOMAIN st.output
         THEN [st EXCEPT !.output = Del(@, r.destinationField)]
         ELSE Fail(st)
    [] r.type = "find-replace" -> Done(find_replace(r, st.record, st.output))
    [] r.type = "coalesce" -> Done(coalesce(r, st.record, st.output))
    [] r.type = "array" -> Done(array(r, st.record, st.output))
    [] r.type = "regex-extract" -> Done(regex_extract(r, st.record, st.output))
    [] r.type = "interpolate" -> Done(interpolate(r, st.record, st.output))
    [] r.type = "concatenate" -> Done(concatenate(r, st.record, st.output))
    [] r.type = "nest" -> Done(nest(r, st.record, st.output))
    [] r.type = "ignore" -> Done(Kept(st.record, st.output))
    [] r.type = "transform" -> Done(transform(r, st.record, st.output))

\* the body of the rule caller c is at, on its record and its output
BodyOf(c) ==
  Branch(RuleOf(c),
         [record |-> records[RecordOf(c)], output |-> Inner(c).output, exc |-> ""])

\* caller c calls program.run_one(record)   (mapping_program.py:343-345)
CallRunOne(c) ==
  /\ pc = "ready"
  /\ transformed[c] = Idle("run_one")
  /\ stack' = [stack EXCEPT ![c] = <<Frame(rules, filters, EmptyRow)>>]
  /\ transformed' = [transformed EXCEPT ![c].state = "running"]
  /\ UNCHANGED <<rules, filters, pc, records, records0, result, fields, err, fvars, gvars>>

\* the filter of the rule does not hold: continue   (mapping_program.py:372-373)
CallSkip(c) ==
  /\ AtRule(c)
  /\ SatisfiedOf(c) = Ok(FALSE)
  /\ stack' = [stack EXCEPT ![c][Len(stack[c])].idx = @ + 1]
  /\ UNCHANGED <<rules, filters, pc, records, records0, transformed, result, fields,
                 err, fvars, gvars>>

\* a rule other than a subprogram runs   (mapping_program.py:375-487)
CallRule(c) ==
  /\ AtRule(c)
  /\ SatisfiedOf(c) = Ok(TRUE)
  /\ RuleOf(c).type # "subprogram"
  /\ BodyOf(c).exc = ""
  /\ records' = [records EXCEPT ![RecordOf(c)] = BodyOf(c).record]
  /\ stack' = [stack EXCEPT ![c][Len(stack[c])] =
                 [@ EXCEPT !.idx = @ + 1, !.output = BodyOf(c).output]]
  /\ UNCHANGED <<rules, filters, pc, records0, transformed, result, fields, err, fvars, gvars>>

\* subprogram: a MappingProgram of the rule's list is built and its run_one
\* called with the current output   (mapping_program.py:433-436)
CallSubprogram(c) ==
  /\ AtRule(c)
  /\ SatisfiedOf(c) = Ok(TRUE)
  /\ RuleOf(c).type = "subprogram"
  /\ FiltersParse(RuleOf(c).rules)
  /\ stack' = [stack EXCEPT ![c] =
                 Append(@, Frame(RuleOf(c).rules, ParsedFilters(RuleOf(c).rules),
                                 Inner(c).output))]
  /\ UNCHANGED <<rules, filters, pc, records, records0, transformed, result, fields,
                 err, fvars, gvars>>

\* an exception ends the call of caller c
CallRaises(c) ==
  /\ AtRule(c)
  /\ \/ SatisfiedOf(c).exc # ""
     \/ /\ SatisfiedOf(c) = Ok(TRUE)
        /\ IF RuleOf(c).type = "subprogram" THEN ~FiltersParse(RuleOf(c).rules)
           ELSE BodyOf(c).exc # ""
  /\ stack' = [stack EXCEPT ![c] = <<>>]
  /\ transformed' = [transformed EXCEPT ![c].state = "raised"]
  /\ UNCHANGED <<rules, filters, pc, records, records0, result, fields, err, fvars, gvars>>

\* return output   (mapping_program.py:489): to the caller, or to the
\* subprogram rule of the calling run_one
CallReturn(c) ==
  /\ pc = "ready" /\ transformed[c].state = "running"
  /\ stack[c] # <<>> /\ Inner(c).idx > Len(Inner(c).rules)
  /\ IF Len(stack[c]) = 1
     THEN /\ transformed' = [transformed EXCEPT ![c] =
                               [@ EXCEPT !.state = "returned", !.value = Inner(c).output]]
          /\ stack' = [stack EXCEPT ![c] = <<>>]
     ELSE /\ transformed' = transformed
          /\ stack' = [stack EXCEPT ![c] =
                         [SubSeq(@, 1, Len(@) - 1) EXCEPT ![Len(stack[c]) - 1] =
                            [@ EXCEPT !.idx = @ + 1,
                                      !.output = AfterSubprogram(@, Inner(c).output)]]]
  /\ UNCHANGED <<rules, filters, pc, records, records0, result, fields, err, fvars, gvars>>

\* caller c calls program.source_fields()   (mapping_program.py:491-532)
CallSourceFields(c) ==
  /\ pc = "ready"
  /\ transformed[c] = Idle("source_fields")
  /\ IF source_fields(rules).exc = ""
     THEN \E l \in Listings(source_fields(rules).val) :
             transformed' = [transformed EXCEPT ![c] =
                               [@ EXCEPT !.state = "returned", !.value = l]]
     ELSE transformed' = [transformed EXCEPT ![c].state = "raised"]
  /\ UNCHANGED <<rules, filters, pc, records, records0, result, stack, fields, err, fvars, gvars>>

NextShared ==
  \/ Construct
  \/ \E c \in Callers :
       \/ CallRunOne(c) \/ CallSkip(c) \/ CallRule(c) \/ CallSubprogram(c)
       \/ CallRaises(c) \/ CallReturn(c) \/ CallSourceFields(c)

SpecShared == InitShared /\ [][NextShared]_vars

(* ---------------------- properties of shared programs -------------------- *)

MaxGroups == 3
\* the indexes of the field names, as find_groups numbers them
FieldIdxs == 0..2

\* nesting.as_number(s): float(s), None on ValueError   (nesting.py:24-28)
nesting_as_number(s) == IF IntOfText(s).ok THEN IntOfText(s) ELSE FloatOfText(s)

\* GroupedField: idx and control are what distill_groups reads
GroupedField(idx, control) == [idx |-> idx, control |-> control]

\* GroupSummary   (nesting.py:201-203)
GroupSummary(idxs, num_numbers) == [idxs |-> idxs, num_numbers |-> num_numbers]

\* the summaries dict, item by item   (nesting.py:228-234)
Summaries(gs) ==
  [g \in 1..Len(gs) |->
     [key |-> gs[g].key,
      summary |->
        GroupSummary([f \in 1..Len(gs[g].fields) |-> gs[g].fields[f].idx],
                     Cardinality({f \in 1..Len(gs[g].fields) :
                                    nesting_as_number(gs[g].fields[f].control).ok}))]]

\* cmp as it would be if the number of fields came first
cmp_fields_first(pair1, pair2) ==
  IF Len(pair2.summary.idxs) # Len(pair1.summary.idxs)
  THEN Len(pair2.summary.idxs) - Len(pair1.summary.idxs)
  ELSE pair2.summary.num_numbers - pair1.summary.num_numbers
\* cmp   (nesting.py:206-216)
cmp(pair1, pair2) ==
  IF pair2.summary.num_numbers - pair1.summary.num_numbers # 0
  THEN pair2.summary.num_numbers - pair1.summary.num_numbers
  ELSE Len(pair2.summary.idxs) - Len(pair1.summary.idxs)

RECURSIVE SortedItems(_)
\* sorted(summaries.items(), key=cmp_to_key(cmp)): stable, an item goes behind
\* every item it is not less than   (nesting.py:237)
SortedItems(items) ==
  IF items = <<>> THEN <<>>
  ELSE LET front == SortedItems(SubSeq(items, 1, Len(items) - 1))
           last == items[Len(items)]
           k == Cardinality({i \in 1..Len(front) :
                               \E j \in i..Len(front) : cmp(last, front[j]) >= 0})
       IN  SubSeq(front, 1, k) \o <<last>> \o SubSeq(front, k + 1, Len(front))

\* groups[key]
GroupOf(gs, key) == gs[CHOOSE g \in 1..Len(gs) : gs[g].key = key]

RECURSIVE DistillFrom(_, _, _, _, _, _)
\* the loop over sorted_keys from position i on   (nesting.py:244-260)
DistillFrom(gs, keep, sorted_items, i, idxs_seen, kept) ==
  IF i > Len(sorted_items) THEN kept
  ELSE LET summary == sorted_items[i].summary
           idxs == {summary.idxs[f] : f \in 1..Len(summary.idxs)}
       IN  IF summary.num_numbers < Len(summary.idxs) /\ ~keep
           THEN DistillFrom(gs, keep, sorted_items, i + 1, idxs_seen, kept)
           ELSE IF idxs \cap idxs_seen # {}
           THEN DistillFrom(gs, keep, sorted_items, i + 1, idxs_seen, kept)
           ELSE DistillFrom(gs, keep, sorted_items, i + 1, idxs_seen \cup idxs,
                            Append(kept, GroupOf(gs, sorted_items[i].key)))

\* distill_groups(groups, keep_non_numeric): the result dict, its items in
\* the order they were added   (nesting.py:219-262)
distill_groups(gs, keep) ==
  DistillFrom(gs, keep, SortedItems(Summaries(gs)), 1, {}, <<>>)

(* --------------------------- the groups drawn --------------------------- *)

RECURSIVE Ascending(_)
\* the elements of a set of numbers, the least first
Ascending(S) ==
  IF S = {} THEN <<>>
  ELSE LET least == CHOOSE x \in S : \A y \in S : x <= y
       IN  <<least>> \o Ascending(S \ {least})

\* the fields of a group on the field names S: the first k controls are the
\* word "a", the others the number of the field
GroupFields(S, k) ==
  [f \in 1..Cardinality(S) |->
     GroupedField(Ascending(S)[f],
                  IF f <= k THEN <<"a">> ELSE <<DigitAtom(Ascending(S)[f] + 1)>>)]

\* find_groups puts at least two fields into a group
GroupBodies ==
  {GroupFields(S, k) : S \in {T \in SUBSET FieldIdxs : Cardinality(T) >= 2},
                       k \in 0..1}
    \cup {GroupFields(S, Cardinality(S)) : S \in SUBSET FieldIdxs \ {{}}}

\* the keys of a dict are distinct: the g-th group is under the key k<g>
Keyed(bodies) ==
  [g \in 1..Len(bodies) |-> [key |-> <<"k", DigitAtom(g)>>, fields |-> bodies[g]]]

InitGroups ==
  /\ \E n \in 0..MaxGroups : \E b \in [1..n -> GroupBodies] : groups = Keyed(b)
  /\ keep_non_numeric \in BOOLEAN
  /\ distilled = NotDistilled
  /\ NoQuery
  /\ NoProgram

\* distill_groups(groups, keep_non_numeric)
Distill ==
  /\ distilled = NotDistilled
  /\ distilled' = [returned |-> TRUE,
                   items |-> distill_groups(groups, keep_non_numeric)]
  /\ UNCHANGED <<groups, keep_non_numeric, fvars, ivars>>

NextGroups == Distill

SpecGroups == InitGroups /\ [][NextGroups]_vars

(* ---------------------- properties of distill_groups -------------------- *)

IdxsOf(group) == {group.fields[f].idx : f \in 1..Len(group.fields)}
NumNumbers(group) ==
  Cardinality({f \in 1..Len(group.fields) :
                 nesting_as_number(group.fields[f].control).ok})

\* group p is considered before group q: more numbers, then more fields, then
\* the earlier item of the dict
Before(p, q) ==
  \/ NumNumbers(groups[p]) > NumNumbers(groups[q])
  \/ /\ NumNumbers(groups[p]) = NumNumbers(groups[q])
     /\ \/ Len(groups[p].fields) > Len(groups[q].fields)
        \/ Len(groups[p].fields) = Len(groups[q].fields) /\ p < q

\* the groups that were kept, by their position in the dict handed over
KeptGroups ==
  {p \in 1..Len(groups) :
     \E d \in 1..Len(distilled.items) : distilled.items[d].key = groups[p].key}

\* C27: in the result of distill_groups no field index is in two groups; a
\* group is kept exactly when it may be kept (all its controls are numbers,
\* or keep_non_numeric is set) and shares no field with a kept group that is
\* considered before it, the order being more numbers first, then more fields
\* first; and a kept group is the group that was handed over.
Thm_C27_KeptGroupsAreDisjoint ==
  distilled.returned =>
    /\ \A d \in 1..Len(distilled.items), e \in 1..Len(distilled.items) :
         d # e => IdxsOf(distilled.items[d]) \cap IdxsOf(distilled.items[e]) = {}
    /\ \A d \in 1..Len(distilled.items) :
         /\ \E p \in 1..Len(groups) : distilled.items[d] = groups[p]
         /\ ~keep_non_numeric
              => \A f \in 1..Len(distilled.items[d].fields) :
                    nesting_as_number(distilled.items[d].fields[f].control).ok
    /\ \A p \in 1..Len(groups) :
         p \in KeptGroups <=>
           /\ keep_non_numeric \/ NumNumbers(groups[p]) = Len(groups[p].fields)
           /\ \A q \in KeptGroups :
                Before(q, p) => IdxsOf(groups[q]) \cap IdxsOf(groups[p]) = {}

\* three groups were handed over with keep_non_numeric set: one of words on
\* all three fields, then two of numbers; the first of the two was kept and
\* the other two, which share a field with it, were not
Wit_C27_NumbersBeforeFields ==
  /\ distilled.returned /\ keep_non_numeric
  /\ Len(groups) = 3
  /\ groups[1].fields = GroupFields({0, 1, 2}, 3)
  /\ groups[2].fields = GroupFields({0, 1}, 0)
  /\ groups[3].fields = GroupFields({1, 2}, 0)
  /\ distilled.items = <<groups[2]>>

====
